---- MODULE Spec2Model ----
(***************************************************************************)
(* FitnessApp: the workout-session lifecycle.                              *)
(*   - the active-workout store (zustand, persisted through partialize)    *)
(*   - the SQLite repository (lib/database) with its foreign keys          *)
(*   - the screen handlers that sequence the two                           *)
(* Time is in milliseconds, as Date.now() returns it, counted from an      *)
(* epoch shifted so that the numbers stay small.                           *)
(***************************************************************************)
EXTENDS Integers, Sequences, FiniteSets, TLC

VARIABLES
  db,         \* the SQLite tables, one set of rows per table
  nextId,     \* the next value uuidv4() hands out
  now,        \* Date.now()
  store,      \* useWorkoutStore's state
  persisted,  \* AsyncStorage 'active-workout-storage'
  cr,         \* the createRoutine call in flight (its locals), or idle
  sw,         \* the startWorkout call in flight (its locals), or idle
  ui,         \* the Alert a start handler has put up, or idle
  boot,       \* the module's database handle and the initDatabase calls in flight
  last        \* the call made by the last step and what it returned

vars == <<db, nextId, now, store, persisted, cr, sw, ui, boot, last>>

----------------------------------------------------------------------------
(* Values *)

\* null (ids start at 1 and the clock at 1, so 0 is free; like null, 0 is falsy)
NULL == 0
\* null in a TEXT column
NULLTEXT == "NULL"

RESUME_WINDOW_MS == 600000

\* How far the clock may run, and by which steps it advances.
MaxNow == 1202001
Deltas == {599000, 600000, 601000}

\* What a call reports: op, how it ended, the id it was about or returned,
\* a boolean result, a numeric result.  The store's calls that return
\* nothing report what they found: the workout that was active, whether it
\* was in its resume window, and how many sets the cache held.
Ret(op, status, id, flag, num) ==
  [op |-> op, status |-> status, id |-> id, flag |-> flag, num |-> num]

NoCall == Ret("none", "ok", NULL, FALSE, 0)

----------------------------------------------------------------------------
(* The active-workout store *)

EmptyMap == [k \in {} |-> <<>>]

InitialState ==
  [activeWorkoutId |-> NULL,
   workoutName |-> NULLTEXT,
   routineTemplateId |-> NULL,
   startedAt |-> NULL,
   completedAt |-> NULL,
   isInResumeWindow |-> FALSE,
   currentExerciseIndex |-> 0,
   currentSetNumber |-> 1,
   loggedSets |-> EmptyMap]

startWorkoutState_keepsCache(s, t, workoutId, name, routineTemplateId) ==
  [activeWorkoutId |-> workoutId,
   workoutName |-> name,
   routineTemplateId |-> routineTemplateId,
   startedAt |-> t,
   completedAt |-> NULL,
   isInResumeWindow |-> FALSE,
   currentExerciseIndex |-> 0,
   currentSetNumber |-> 1,
   loggedSets |-> s.loggedSets]

startWorkoutState(s, t, workoutId, name, routineTemplateId) ==
  [activeWorkoutId |-> workoutId,
   workoutName |-> name,
   routineTemplateId |-> routineTemplateId,
   startedAt |-> t,
   completedAt |-> NULL,
   isInResumeWindow |-> FALSE,
   currentExerciseIndex |-> 0,
   currentSetNumber |-> 1,
   loggedSets |-> EmptyMap]

setCurrentExercise(s, index) ==
  [s EXCEPT !.currentExerciseIndex = index, !.currentSetNumber = 1]

setCurrentSet(s, setNumber) ==
  [s EXCEPT !.currentSetNumber = setNumber]

addLoggedSet_replacesSameNumber(s, workoutExerciseId, workoutSet) ==
  LET currentSets == s.loggedSets
      exerciseSets == IF workoutExerciseId \in DOMAIN currentSets
                      THEN currentSets[workoutExerciseId] ELSE <<>>
      newMap == [k \in DOMAIN currentSets \cup {workoutExerciseId} |->
                   IF k = workoutExerciseId
                   THEN Append(SelectSeq(exerciseSets,
                                         LAMBDA x : x.setNumber # workoutSet.setNumber),
                               workoutSet)
                   ELSE currentSets[k]]
  IN [s EXCEPT !.loggedSets = newMap]

addLoggedSet(s, workoutExerciseId, workoutSet) ==
  LET currentSets == s.loggedSets
      exerciseSets == IF workoutExerciseId \in DOMAIN currentSets
                      THEN currentSets[workoutExerciseId] ELSE <<>>
      newMap == [k \in DOMAIN currentSets \cup {workoutExerciseId} |->
                   IF k = workoutExerciseId
                   THEN Append(exerciseSets, workoutSet)
                   ELSE currentSets[k]]
  IN [s EXCEPT !.loggedSets = newMap]

markCompleted(s, t) ==
  [s EXCEPT !.completedAt = t, !.isInResumeWindow = TRUE]

\* resumeWorkout: the new state, the boolean returned, the elapsed time read
resumeWorkout_fromStart(s, t) ==
  IF s.completedAt = NULL \/ ~s.isInResumeWindow
  THEN [state |-> s, ret |-> FALSE, elapsed |-> 0]
  ELSE LET elapsed == t - s.startedAt IN
       IF elapsed <= RESUME_WINDOW_MS
       THEN [state |-> [s EXCEPT !.completedAt = NULL, !.isInResumeWindow = FALSE],
             ret |-> TRUE, elapsed |-> elapsed]
       ELSE [state |-> s, ret |-> FALSE, elapsed |-> elapsed]

resumeWorkout_endsWorkout(s, t) ==
  IF s.completedAt = NULL \/ ~s.isInResumeWindow
  THEN [state |-> s, ret |-> FALSE, elapsed |-> 0]
  ELSE LET elapsed == t - s.completedAt IN
       IF elapsed <= RESUME_WINDOW_MS
       THEN [state |-> InitialState, ret |-> TRUE, elapsed |-> elapsed]
       ELSE [state |-> s, ret |-> FALSE, elapsed |-> elapsed]

resumeWorkout(s, t) ==
  IF s.completedAt = NULL \/ ~s.isInResumeWindow
  THEN [state |-> s, ret |-> FALSE, elapsed |-> 0]
  ELSE LET elapsed == t - s.completedAt IN
       IF elapsed <= RESUME_WINDOW_MS
       THEN [state |-> [s EXCEPT !.completedAt = NULL, !.isInResumeWindow = FALSE],
             ret |-> TRUE, elapsed |-> elapsed]
       ELSE [state |-> s, ret |-> FALSE, elapsed |-> elapsed]

checkResumeWindow_keepsCache(s, t) ==
  IF s.completedAt = NULL \/ ~s.isInResumeWindow
  THEN [state |-> s, ret |-> FALSE, elapsed |-> 0]
  ELSE LET elapsed == t - s.completedAt IN
       IF elapsed > RESUME_WINDOW_MS
       THEN [state |-> [InitialState EXCEPT !.loggedSets = s.loggedSets],
             ret |-> FALSE, elapsed |-> elapsed]
       ELSE [state |-> s, ret |-> TRUE, elapsed |-> elapsed]

checkResumeWindow_strict(s, t) ==
  IF s.completedAt = NULL \/ ~s.isInResumeWindow
  THEN [state |-> s, ret |-> FALSE, elapsed |-> 0]
  ELSE LET elapsed == t - s.completedAt IN
       IF elapsed >= RESUME_WINDOW_MS
       THEN [state |-> InitialState, ret |-> FALSE, elapsed |-> elapsed]
       ELSE [state |-> s, ret |-> TRUE, elapsed |-> elapsed]

checkResumeWindow(s, t) ==
  IF s.completedAt = NULL \/ ~s.isInResumeWindow
  THEN [state |-> s, ret |-> FALSE, elapsed |-> 0]
  ELSE LET elapsed == t - s.completedAt IN
       IF elapsed > RESUME_WINDOW_MS
       THEN [state |-> InitialState, ret |-> FALSE, elapsed |-> elapsed]
       ELSE [state |-> s, ret |-> TRUE, elapsed |-> elapsed]

endWorkout(s) == InitialState

abandonWorkout_keepsCursor(s) ==
  [InitialState EXCEPT !.currentExerciseIndex = s.currentExerciseIndex,
                       !.currentSetNumber = s.currentSetNumber]

abandonWorkout(s) == InitialState

getElapsedSeconds(s, t) ==
  IF s.startedAt = NULL THEN 0 ELSE (t - s.startedAt) \div 1000

partialize_noCursor(s) ==
  [activeWorkoutId |-> s.activeWorkoutId,
   workoutName |-> s.workoutName,
   routineTemplateId |-> s.routineTemplateId,
   startedAt |-> s.startedAt,
   completedAt |-> s.completedAt,
   isInResumeWindow |-> s.isInResumeWindow,
   currentExerciseIndex |-> 0,
   currentSetNumber |-> 1]

\* what persist() writes to AsyncStorage after every set()
partialize(s) ==
  [activeWorkoutId |-> s.activeWorkoutId,
   workoutName |-> s.workoutName,
   routineTemplateId |-> s.routineTemplateId,
   startedAt |-> s.startedAt,
   completedAt |-> s.completedAt,
   isInResumeWindow |-> s.isInResumeWindow,
   currentExerciseIndex |-> s.currentExerciseIndex,
   currentSetNumber |-> s.currentSetNumber]

\* what the store holds after a cold start: the initial state with the
\* persisted fields merged over it
rehydrate(p) ==
  [activeWorkoutId |-> p.activeWorkoutId,
   workoutName |-> p.workoutName,
   routineTemplateId |-> p.routineTemplateId,
   startedAt |-> p.startedAt,
   completedAt |-> p.completedAt,
   isInResumeWindow |-> p.isInResumeWindow,
   currentExerciseIndex |-> p.currentExerciseIndex,
   currentSetNumber |-> p.currentSetNumber,
   loggedSets |-> InitialState.loggedSets]

\* set(): the store takes the new state and persist() mirrors it
SetStore(s) ==
  /\ store' = s
  /\ persisted' = partialize(s)

----------------------------------------------------------------------------
(* The SQLite tables (initDatabase).  A row is a record of its columns;   *)
(* the timestamps of exercises and routine_templates, which no operation  *)
(* below reads, are left out.  PRAGMA foreign_keys = ON is in force.       *)

\* SEED_EXERCISES, cut down to its first entries
NumSeed == 2

SeedRows ==
  {[id |-> 1, name |-> "Barbell Bench Press", is_custom |-> 0],
   [id |-> 2, name |-> "Incline Barbell Bench Press", is_custom |-> 0]}

EmptyDb ==
  [exercises |-> {},
   routine_templates |-> {},
   routine_exercises |-> {},
   routine_exercise_sets |-> {},
   workout_sessions |-> {},
   workout_exercises |-> {},
   workout_sets |-> {},
   scheduled_workouts |-> {},
   workout_photos |-> {}]

\* the database once initDatabase has created the tables and seeded them
SeededDb == [EmptyDb EXCEPT !.exercises = SeedRows]

Ids(rows) == {r.id : r \in rows}

Accepts_nameNullable(d, table, row) ==
  CASE table = "workout_sessions" ->
         row.routine_template_id \in Ids(d.routine_templates)
    [] table = "workout_sets" ->
         row.workout_exercise_id \in Ids(d.workout_exercises)
    [] table = "workout_exercises" ->
         row.workout_session_id \in Ids(d.workout_sessions)
    [] table = "workout_photos" ->
         row.workout_session_id \in Ids(d.workout_sessions)
    [] OTHER -> TRUE

\* NOT NULL and FOREIGN KEY constraints of each table, as INSERT checks them
Accepts(d, table, row) ==
  CASE table = "exercises" ->
         row.name # NULLTEXT
    [] table = "routine_templates" ->
         row.name # NULLTEXT
    [] table = "routine_exercises" ->
         /\ row.routine_template_id \in Ids(d.routine_templates)
         /\ row.exercise_id \in Ids(d.exercises)
    [] table = "routine_exercise_sets" ->
         /\ row.routine_exercise_id \in Ids(d.routine_exercises)
         /\ row.target_reps # NULL
    [] table = "workout_sessions" ->
         /\ row.routine_template_id \in Ids(d.routine_templates)
         /\ row.name # NULLTEXT
    [] table = "workout_exercises" ->
         /\ row.workout_session_id \in Ids(d.workout_sessions)
         /\ row.exercise_id \in Ids(d.exercises)
         /\ row.routine_exercise_id \in Ids(d.routine_exercises) \cup {NULL}
    [] table = "workout_sets" ->
         row.workout_exercise_id \in Ids(d.workout_exercises)
    [] table = "scheduled_workouts" ->
         row.routine_template_id \in Ids(d.routine_templates)
    [] table = "workout_photos" ->
         row.workout_session_id \in Ids(d.workout_sessions)

\* runAsync('INSERT ...'): io is FALSE when the storage layer fails the
\* statement; the promise then rejects and the table is as it was
RunInsert(d, table, row, io) ==
  IF io /\ Accepts(d, table, row)
  THEN [ok |-> TRUE, db |-> [d EXCEPT ![table] = @ \cup {row}]]
  ELSE [ok |-> FALSE, db |-> d]

\* ORDER BY: keyed rows [k, r] as the sequence of their rows, smallest key
\* first; rows with equal keys come in insertion order (ascending rowid)
RECURSIVE OrderByKey(_)
OrderByKey(keyed) ==
  IF keyed = {} THEN <<>>
  ELSE LET first == CHOOSE p \in keyed :
                      \A q \in keyed :
                        \/ p.k < q.k
                        \/ p.k = q.k /\ p.r.id <= q.r.id
       IN <<first.r>> \o OrderByKey(keyed \ {first})

----------------------------------------------------------------------------
(* Template repository *)

NoRoutine == [id |-> NULL, name |-> NULLTEXT, exercises |-> <<>>]

\* SELECT * FROM routine_templates WHERE id = ?  (getFirstAsync)
routineRow(d, routineId) ==
  IF routineId \in Ids(d.routine_templates)
  THEN LET row == CHOOSE r \in d.routine_templates : r.id = routineId
       IN [id |-> row.id, name |-> row.name, exercises |-> <<>>]
  ELSE NoRoutine

routineSets_insertionOrder(d, routineExerciseId) ==
  LET rows == OrderByKey({[k |-> r.id, r |-> r] :
                 r \in {x \in d.routine_exercise_sets :
                          x.routine_exercise_id = routineExerciseId}})
  IN [n \in 1..Len(rows) |->
        [id |-> rows[n].id,
         routineExerciseId |-> rows[n].routine_exercise_id,
         setNumber |-> rows[n].set_number,
         targetReps |-> rows[n].target_reps,
         targetWeight |-> rows[n].target_weight,
         setType |-> rows[n].set_type]]

\* SELECT * FROM routine_exercise_sets WHERE routine_exercise_id = ? ORDER BY set_number
routineSets(d, routineExerciseId) ==
  LET rows == OrderByKey({[k |-> r.set_number, r |-> r] :
                 r \in {x \in d.routine_exercise_sets :
                          x.routine_exercise_id = routineExerciseId}})
  IN [n \in 1..Len(rows) |->
        [id |-> rows[n].id,
         routineExerciseId |-> rows[n].routine_exercise_id,
         setNumber |-> rows[n].set_number,
         targetReps |-> rows[n].target_reps,
         targetWeight |-> rows[n].target_weight,
         setType |-> rows[n].set_type]]

\* SELECT re.* ... FROM routine_exercises re JOIN exercises e ...
\* WHERE re.routine_template_id = ? ORDER BY re.sort_order, with each row's sets
routineExercises(d, routineId) ==
  LET rows == OrderByKey({[k |-> r.sort_order, r |-> r] :
                 r \in {x \in d.routine_exercises :
                          /\ x.routine_template_id = routineId
                          /\ x.exercise_id \in Ids(d.exercises)}})
  IN [n \in 1..Len(rows) |->
        [id |-> rows[n].id,
         routineTemplateId |-> rows[n].routine_template_id,
         exerciseId |-> rows[n].exercise_id,
         order |-> rows[n].sort_order,
         restSeconds |-> rows[n].rest_seconds,
         notes |-> rows[n].notes,
         supersetGroupId |-> rows[n].superset_group_id,
         sets |-> routineSets(d, rows[n].id)]]

routineMissing_never(routine) == FALSE

\* if (!routineRow) return null  /  if (!routine) throw
routineMissing(routine) == routine.id = NULL

getRoutineWithExercises(d, routineId) ==
  LET row == routineRow(d, routineId)
  IN IF routineMissing(row) THEN NoRoutine
     ELSE [row EXCEPT !.exercises = routineExercises(d, routineId)]

\* createRoutine's locals; (i, j) is the insert it is about to make:
\* (0, 0) the template, (i, 0) exercise i, (i, j) set j of exercise i
IdleCreate ==
  [pc |-> "idle", input |-> [name |-> NULLTEXT, exercises |-> <<>>],
   routineId |-> NULL, routineExerciseId |-> NULL, i |-> 0, j |-> 0]

createRoutineCall(input, routineId) ==
  [pc |-> "run", input |-> input, routineId |-> routineId,
   routineExerciseId |-> NULL, i |-> 0, j |-> 0]

\* the number of uuidv4() calls createRoutine(input) makes when it runs through
RECURSIVE SetCount(_)
SetCount(exercises) ==
  IF exercises = <<>> THEN 0
  ELSE 1 + Len(Head(exercises).sets) + SetCount(Tail(exercises))

IdsOfCreate(input) == 1 + SetCount(input.exercises)

\* one awaited INSERT of createRoutine: the tables and uuid counter after it,
\* the call's locals (gone once it has returned or thrown), whether it has
\* ended, and the routine id it is about
createRoutineStep(d, n, c, io) ==
  LET exs == c.input.exercises
      atTemplate == c.i = 0
      atExercise == c.i > 0 /\ c.j = 0
      routineExerciseId == IF atExercise THEN n ELSE c.routineExerciseId
      table == IF atTemplate THEN "routine_templates"
               ELSE IF atExercise THEN "routine_exercises"
               ELSE "routine_exercise_sets"
      row == IF atTemplate THEN
               [id |-> c.routineId, name |-> c.input.name]
             ELSE IF atExercise THEN
               [id |-> routineExerciseId,
                routine_template_id |-> c.routineId,
                exercise_id |-> exs[c.i].exerciseId,
                sort_order |-> exs[c.i].order,
                rest_seconds |-> exs[c.i].restSeconds,
                notes |-> exs[c.i].notes,
                superset_group_id |-> exs[c.i].supersetGroupId]
             ELSE
               [id |-> n,
                routine_exercise_id |-> c.routineExerciseId,
                set_number |-> exs[c.i].sets[c.j].setNumber,
                target_reps |-> exs[c.i].sets[c.j].targetReps,
                target_weight |-> exs[c.i].sets[c.j].targetWeight,
                set_type |-> exs[c.i].sets[c.j].setType]
      used == IF atTemplate THEN n ELSE n + 1
      r == RunInsert(d, table, row, io)
      moreSets == c.i > 0 /\ c.j < Len(exs[c.i].sets)
      moreExercises == c.i < Len(exs)
      here == [c EXCEPT !.routineExerciseId = routineExerciseId]
  IN IF ~r.ok THEN
       [db |-> r.db, nextId |-> used, call |-> IdleCreate,
        done |-> TRUE, status |-> "SqlError", value |-> c.routineId]
     ELSE IF moreSets THEN
       [db |-> r.db, nextId |-> used, call |-> [here EXCEPT !.j = c.j + 1],
        done |-> FALSE, status |-> "ok", value |-> c.routineId]
     ELSE IF moreExercises THEN
       [db |-> r.db, nextId |-> used, call |-> [here EXCEPT !.i = c.i + 1, !.j = 0],
        done |-> FALSE, status |-> "ok", value |-> c.routineId]
     ELSE
       [db |-> r.db, nextId |-> used, call |-> IdleCreate,
        done |-> TRUE, status |-> "ok", value |-> c.routineId]

\* createRoutine run from call to return with nothing in between
RECURSIVE createRoutineRun(_, _, _)
createRoutineRun(d, n, c) ==
  CHOOSE end \in {IF r.done THEN r ELSE createRoutineRun(r.db, r.nextId, r.call) :
                    r \in {createRoutineStep(d, n, c, TRUE)}} : TRUE

\* DELETE FROM routine_templates WHERE id = ?: routine_exercises, their sets
\* and scheduled_workouts cascade; workout_sessions.routine_template_id and
\* workout_exercises.routine_exercise_id carry no ON DELETE clause, so a row
\* that still refers to what would go makes the statement fail
deleteRoutine(d, routineId) ==
  LET exs == {r \in d.routine_exercises : r.routine_template_id = routineId}
      sets == {r \in d.routine_exercise_sets : r.routine_exercise_id \in Ids(exs)}
      scheduled == {r \in d.scheduled_workouts : r.routine_template_id = routineId}
      exists == routineId \in Ids(d.routine_templates)
      referenced ==
        \/ \E w \in d.workout_sessions : w.routine_template_id = routineId
        \/ \E we \in d.workout_exercises : we.routine_exercise_id \in Ids(exs)
  IN IF exists /\ referenced
     THEN [ok |-> FALSE, db |-> d]
     ELSE [ok |-> TRUE,
           db |-> [d EXCEPT
                     !.routine_templates = {r \in @ : r.id # routineId},
                     !.routine_exercises = @ \ exs,
                     !.routine_exercise_sets = @ \ sets,
                     !.scheduled_workouts = @ \ scheduled]]

----------------------------------------------------------------------------
(* Session repository *)

IdleStart ==
  [pc |-> "idle", routineId |-> NULL, routine |-> NoRoutine,
   workoutId |-> NULL, i |-> 0]

startWorkoutCall(routineId) ==
  [pc |-> "row", routineId |-> routineId, routine |-> NoRoutine,
   workoutId |-> NULL, i |-> 0]

sessionRow(workoutId, routineId, routine, t) ==
  [id |-> workoutId,
   routine_template_id |-> routineId,
   name |-> routine.name,
   started_at |-> t,
   completed_at |-> NULL,
   notes |-> NULLTEXT,
   status |-> "active"]

workoutExerciseRow_noBackReference(workoutExerciseId, workoutId, routineExercise) ==
  [id |-> workoutExerciseId,
   workout_session_id |-> workoutId,
   exercise_id |-> routineExercise.exerciseId,
   routine_exercise_id |-> NULL,
   sort_order |-> routineExercise.order,
   notes |-> routineExercise.notes]

workoutExerciseRow(workoutExerciseId, workoutId, routineExercise) ==
  [id |-> workoutExerciseId,
   workout_session_id |-> workoutId,
   exercise_id |-> routineExercise.exerciseId,
   routine_exercise_id |-> routineExercise.id,
   sort_order |-> routineExercise.order,
   notes |-> routineExercise.notes]

\* one awaited statement of startWorkout: "row" and "exercises" are the two
\* reads of getRoutineWithExercises, "session" and "exercise" the INSERTs;
\* value is the workout id once uuidv4() has made it
startWorkoutStep(d, n, t, c, io) ==
  CASE c.pc = "row" ->
         LET row == routineRow(d, c.routineId)
         IN IF routineMissing(row)
            THEN [db |-> d, nextId |-> n, call |-> IdleStart,
                  done |-> TRUE, status |-> "NotFound", value |-> NULL]
            ELSE [db |-> d, nextId |-> n,
                  call |-> [c EXCEPT !.pc = "exercises", !.routine = row],
                  done |-> FALSE, status |-> "ok", value |-> NULL]
    [] c.pc = "exercises" ->
         [db |-> d, nextId |-> n,
          call |-> [c EXCEPT !.pc = "session",
                             !.routine.exercises = routineExercises(d, c.routineId)],
          done |-> FALSE, status |-> "ok", value |-> NULL]
    [] c.pc = "session" ->
         LET r == RunInsert(d, "workout_sessions",
                            sessionRow(n, c.routineId, c.routine, t), io)
         IN IF ~r.ok THEN
              [db |-> r.db, nextId |-> n + 1, call |-> IdleStart,
               done |-> TRUE, status |-> "SqlError", value |-> n]
            ELSE IF Len(c.routine.exercises) = 0 THEN
              [db |-> r.db, nextId |-> n + 1, call |-> IdleStart,
               done |-> TRUE, status |-> "ok", value |-> n]
            ELSE
              [db |-> r.db, nextId |-> n + 1,
               call |-> [c EXCEPT !.pc = "exercise", !.workoutId = n, !.i = 1],
               done |-> FALSE, status |-> "ok", value |-> n]
    [] c.pc = "exercise" ->
         LET r == RunInsert(d, "workout_exercises",
                            workoutExerciseRow(n, c.workoutId, c.routine.exercises[c.i]),
                            io)
         IN IF ~r.ok THEN
              [db |-> r.db, nextId |-> n + 1, call |-> IdleStart,
               done |-> TRUE, status |-> "SqlError", value |-> c.workoutId]
            ELSE IF c.i < Len(c.routine.exercises) THEN
              [db |-> r.db, nextId |-> n + 1, call |-> [c EXCEPT !.i = c.i + 1],
               done |-> FALSE, status |-> "ok", value |-> c.workoutId]
            ELSE
              [db |-> r.db, nextId |-> n + 1, call |-> IdleStart,
               done |-> TRUE, status |-> "ok", value |-> c.workoutId]

\* startWorkout run from call to return with nothing in between
RECURSIVE startWorkoutRun(_, _, _, _)
startWorkoutRun(d, n, t, c) ==
  CHOOSE end \in {IF r.done THEN r ELSE startWorkoutRun(r.db, r.nextId, t, r.call) :
                    r \in {startWorkoutStep(d, n, t, c, TRUE)}} : TRUE

\* UPDATE workout_sessions SET completed_at = ?, status = 'completed', notes = ? WHERE id = ?
completeWorkout(d, t, workoutId, notes) ==
  [d EXCEPT !.workout_sessions =
     {IF w.id = workoutId
      THEN [w EXCEPT !.completed_at = t, !.status = "completed", !.notes = notes]
      ELSE w : w \in @}]

----------------------------------------------------------------------------
(* Scheduled workouts *)

\* INSERT INTO scheduled_workouts (id, routine_template_id, scheduled_date, created_at)
scheduleWorkout(d, n, t, routineTemplateId, scheduledDate) ==
  RunInsert(d, "scheduled_workouts",
            [id |-> n, routine_template_id |-> routineTemplateId,
             scheduled_date |-> scheduledDate, created_at |-> t],
            TRUE)

\* DELETE FROM scheduled_workouts WHERE id = ?
deleteScheduledWorkout(d, id) ==
  [d EXCEPT !.scheduled_workouts = {r \in @ : r.id # id}]

----------------------------------------------------------------------------
(* Logged sets, photos and the removal of sessions *)

\* the columns of the tables that deleteWorkout names in its WHERE clauses
Columns(table) ==
  CASE table = "workout_sets" ->
         {"id", "workout_exercise_id", "set_number", "weight", "reps", "rpe",
          "completed_at", "set_type"}
    [] table = "workout_photos" ->
         {"id", "workout_session_id", "file_path", "sort_order", "created_at"}
    [] table = "workout_sessions" ->
         {"id", "routine_template_id", "name", "started_at", "completed_at",
          "notes", "status"}

\* DELETE FROM workout_sessions WHERE id = ?: workout_exercises and
\* workout_photos cascade from the session, workout_sets from the exercises
deleteSessionRow(d, workoutId) ==
  LET exs == {w \in d.workout_exercises : w.workout_session_id = workoutId}
  IN [d EXCEPT
        !.workout_sessions = {w \in @ : w.id # workoutId},
        !.workout_exercises = @ \ exs,
        !.workout_sets = {r \in @ : r.workout_exercise_id \notin Ids(exs)},
        !.workout_photos = {r \in @ : r.workout_session_id # workoutId}]

\* deleteWorkout: three awaited DELETEs; a statement that names a column its
\* table does not have is rejected when it is prepared, and the call throws
deleteWorkout(d, workoutId) ==
  IF "workout_id" \notin Columns("workout_sets")
  THEN [ok |-> FALSE, db |-> d]
  ELSE IF "workout_id" \notin Columns("workout_photos")
  THEN [ok |-> FALSE, db |-> d]
  ELSE [ok |-> TRUE, db |-> deleteSessionRow(d, workoutId)]

logSet_replacesSameNumber(d, n, t, workoutExerciseId, setNumber, weight, reps) ==
  RunInsert([d EXCEPT !.workout_sets =
               {r \in @ : ~(/\ r.workout_exercise_id = workoutExerciseId
                            /\ r.set_number = setNumber)}],
            "workout_sets",
            [id |-> n, workout_exercise_id |-> workoutExerciseId,
             set_number |-> setNumber, weight |-> weight, reps |-> reps,
             rpe |-> NULL, completed_at |-> t, set_type |-> "normal"],
            TRUE)

\* logSet: INSERT INTO workout_sets, stamped with Date.now()
logSet(d, n, t, workoutExerciseId, setNumber, weight, reps) ==
  RunInsert(d, "workout_sets",
            [id |-> n, workout_exercise_id |-> workoutExerciseId,
             set_number |-> setNumber, weight |-> weight, reps |-> reps,
             rpe |-> NULL, completed_at |-> t, set_type |-> "normal"],
            TRUE)

\* addWorkoutPhoto: INSERT INTO workout_photos
addWorkoutPhoto(d, n, t, workoutSessionId, filePath, sortOrder) ==
  RunInsert(d, "workout_photos",
            [id |-> n, workout_session_id |-> workoutSessionId,
             file_path |-> filePath, sort_order |-> sortOrder, created_at |-> t],
            TRUE)

\* completeWorkoutWithPhotos: the UPDATE of completeWorkout, then one
\* addWorkoutPhoto per path; a photo of a session that is not there fails
RECURSIVE addPhotos(_, _, _, _, _, _)
addPhotos(d, n, t, workoutId, photoPaths, i) ==
  IF i > Len(photoPaths) THEN [ok |-> TRUE, db |-> d, nextId |-> n]
  ELSE CHOOSE end \in
         {IF r.ok THEN addPhotos(r.db, n + 1, t, workoutId, photoPaths, i + 1)
                  ELSE [ok |-> FALSE, db |-> r.db, nextId |-> n + 1] :
            r \in {addWorkoutPhoto(d, n, t, workoutId, photoPaths[i], i - 1)}} : TRUE

completeWorkoutWithPhotos(d, n, t, workoutId, notes, photoPaths) ==
  addPhotos(completeWorkout(d, t, workoutId, notes), n, t, workoutId, photoPaths, 1)

\* createCompletedWorkoutForDate: INSERT INTO workout_sessions (id,
\* routine_template_id, started_at, completed_at, status) with no name
createCompletedWorkoutForDate(d, n, routineTemplateId, startedAt) ==
  RunInsert(d, "workout_sessions",
            [id |-> n, routine_template_id |-> routineTemplateId,
             name |-> NULLTEXT, started_at |-> startedAt,
             completed_at |-> startedAt + 30 * 60 * 1000,
             notes |-> NULLTEXT, status |-> "completed"],
            TRUE)

----------------------------------------------------------------------------
(* Custom exercises *)

\* INSERT INTO exercises (...) VALUES (?, ?, ?, ?, ?, 1)
createCustomExercise(d, n, name) ==
  RunInsert(d, "exercises", [id |-> n, name |-> name, is_custom |-> 1], TRUE)

\* DELETE FROM exercises WHERE id = ?: routine_exercises.exercise_id and
\* workout_exercises.exercise_id carry no ON DELETE clause
deleteExerciseRow(d, exerciseId) ==
  IF \/ \E r \in d.routine_exercises : r.exercise_id = exerciseId
     \/ \E r \in d.workout_exercises : r.exercise_id = exerciseId
  THEN [ok |-> FALSE, error |-> "SqlError", db |-> d]
  ELSE [ok |-> TRUE, error |-> NULLTEXT,
        db |-> [d EXCEPT !.exercises = {e \in @ : e.id # exerciseId}]]

deleteCustomExercise_anyExercise(d, exerciseId) ==
  IF \E r \in d.routine_exercises : r.exercise_id = exerciseId
  THEN [ok |-> FALSE, error |-> "Cannot delete exercise that is used in a routine",
        db |-> d]
  ELSE deleteExerciseRow(d, exerciseId)

deleteCustomExercise(d, exerciseId) ==
  IF \A e \in d.exercises : e.id = exerciseId => e.is_custom # 1
  THEN [ok |-> FALSE, error |-> "Cannot delete non-custom exercise", db |-> d]
  ELSE IF \E r \in d.routine_exercises : r.exercise_id = exerciseId
  THEN [ok |-> FALSE, error |-> "Cannot delete exercise that is used in a routine",
        db |-> d]
  ELSE deleteExerciseRow(d, exerciseId)

----------------------------------------------------------------------------
(* History queries *)

NoSet == [id |-> NULL]
NoSummary == [id |-> NULL]

\* FROM workout_exercises we LEFT JOIN workout_sets ws
\*   ON ws.workout_exercise_id = we.id WHERE we.workout_session_id = ?
\* : one row per logged set, and one row with a null set for every exercise
\* instance that has no set
summaryJoin(d, workoutId) ==
  LET exs == {we \in d.workout_exercises : we.workout_session_id = workoutId}
  IN {[we |-> p[1], ws |-> p[2]] :
        p \in {q \in exs \X d.workout_sets : q[2].workout_exercise_id = q[1].id}}
     \cup {[we |-> we, ws |-> NoSet] :
             we \in {e \in exs :
                       \A x \in d.workout_sets : x.workout_exercise_id # e.id}}

volumeOf_weightOnly(ws) == ws.weight

\* ws.weight * ws.reps
volumeOf(ws) == ws.weight * ws.reps

\* COALESCE(SUM(ws.weight * ws.reps), 0): rows with a null set add nothing
RECURSIVE sumVolume(_)
sumVolume(rows) ==
  IF rows = {} THEN 0
  ELSE LET row == CHOOSE x \in rows : TRUE
       IN (IF row.ws.id = NULL THEN 0 ELSE volumeOf(row.ws))
            + sumVolume(rows \ {row})

getWorkoutSummary(d, workoutId) ==
  IF workoutId \notin Ids(d.workout_sessions) THEN NoSummary
  ELSE LET workout == CHOOSE w \in d.workout_sessions : w.id = workoutId
           rows == summaryJoin(d, workoutId)
       IN [id |-> workout.id,
           name |-> workout.name,
           startedAt |-> workout.started_at,
           completedAt |-> workout.completed_at,
           duration |-> IF workout.completed_at # NULL
                        THEN (workout.completed_at - workout.started_at) \div 1000
                        ELSE 0,
           totalVolume |-> sumVolume(rows),
           totalSets |-> Cardinality({row.ws.id : row \in {x \in rows : x.ws.id # NULL}}),
           exerciseCount |-> Cardinality({row.we.exercise_id : row \in rows})]

LAST_WORKOUT_LIMIT == 10

\* ORDER BY k1, k2: keyed rows [k1, k2, r] as the sequence of their rows;
\* rows that agree on both keys come in insertion order
RECURSIVE OrderByKeys(_)
OrderByKeys(keyed) ==
  IF keyed = {} THEN <<>>
  ELSE LET first == CHOOSE p \in keyed :
                      \A q \in keyed :
                        \/ p.k1 < q.k1
                        \/ p.k1 = q.k1 /\ p.k2 < q.k2
                        \/ p.k1 = q.k1 /\ p.k2 = q.k2 /\ p.r.ws.id <= q.r.ws.id
       IN <<first.r>> \o OrderByKeys(keyed \ {first})

lastWorkoutWhere_anyStatus(j, exerciseId, excludeWorkoutId) ==
  /\ j.we.exercise_id = exerciseId
  /\ excludeWorkoutId # NULL => j.wses.id # excludeWorkoutId

\* WHERE we.exercise_id = ? AND wses.status = 'completed' [AND wses.id != ?]
lastWorkoutWhere(j, exerciseId, excludeWorkoutId) ==
  /\ j.we.exercise_id = exerciseId
  /\ j.wses.status = "completed"
  /\ excludeWorkoutId # NULL => j.wses.id # excludeWorkoutId

\* workout_sets JOIN workout_exercises JOIN workout_sessions, filtered,
\* ORDER BY wses.started_at DESC, ws.set_number ASC LIMIT 10
lastWorkoutRows(d, exerciseId, excludeWorkoutId) ==
  LET joined == {[ws |-> ws, we |-> we, wses |-> wses] :
                   ws \in d.workout_sets,
                   we \in {x \in d.workout_exercises :
                             x.id \in {y.workout_exercise_id : y \in d.workout_sets}},
                   wses \in d.workout_sessions}
      rows == {j \in joined :
                 /\ j.ws.workout_exercise_id = j.we.id
                 /\ j.we.workout_session_id = j.wses.id
                 /\ lastWorkoutWhere(j, exerciseId, excludeWorkoutId)}
      ordered == OrderByKeys({[k1 |-> 0 - j.wses.started_at,
                               k2 |-> j.ws.set_number, r |-> j] : j \in rows})
  IN SubSeq(ordered, 1,
            IF Len(ordered) < LAST_WORKOUT_LIMIT THEN Len(ordered)
            ELSE LAST_WORKOUT_LIMIT)

getLastWorkoutForExercise(d, exerciseId, excludeWorkoutId) ==
  LET rows == lastWorkoutRows(d, exerciseId, excludeWorkoutId)
  IN [n \in 1..Len(rows) |->
        [setNumber |-> rows[n].ws.set_number,
         weight |-> rows[n].ws.weight,
         reps |-> rows[n].ws.reps]]

----------------------------------------------------------------------------
(* The initial state: tables created and seeded, nothing persisted yet *)

MaxInitCalls == 3

\* an initDatabase call that is not running
IdleInit == [pc |-> "idle", i |-> 0]

\* let db = null, and no call made yet
NotBooted == [handle |-> FALSE, calls |-> [c \in 1..MaxInitCalls |-> IdleInit]]

\* initDatabase has returned
Booted == [NotBooted EXCEPT !.handle = TRUE]

IdleUi == [pc |-> "idle", screen |-> "none", routineId |-> NULL, name |-> NULLTEXT]

Init ==
  /\ db = SeededDb
  /\ nextId = NumSeed + 1
  /\ now = 1
  /\ store = InitialState
  /\ persisted = partialize(InitialState)
  /\ cr = IdleCreate
  /\ sw = IdleStart
  /\ ui = IdleUi
  /\ boot = Booted
  /\ last = NoCall

\* Date.now() moves on
Tick ==
  \E d \in Deltas :
    /\ now + d <= MaxNow
    /\ now' = now + d
    /\ last' = Ret("tick", "ok", NULL, FALSE, d)
    /\ UNCHANGED <<db, nextId, store, persisted, cr, sw, ui, boot>>

----------------------------------------------------------------------------
(* The store's actions, called directly *)

\* arguments a caller passes to startWorkout(workoutId, name, routineTemplateId)
StartArgs ==
  {[workoutId |-> 11, name |-> "Push", routineTemplateId |-> 21],
   [workoutId |-> 12, name |-> "Pull", routineTemplateId |-> 22]}

\* cursor positions a caller navigates to
MaxIndex == 1
MaxSetNumber == 2

\* sets a caller caches: two of them carry the same setNumber
LoggedSetArgs ==
  {[id |-> 31, workoutExerciseId |-> 41, setNumber |-> 1, weight |-> 10, reps |-> 5],
   [id |-> 32, workoutExerciseId |-> 41, setNumber |-> 1, weight |-> 20, reps |-> 3]}
WorkoutExerciseArgs == {41, 42}

\* how many sets the cache may hold in all
MaxLogged == 2

RECURSIVE CacheSize(_)
CacheSize(m) ==
  IF DOMAIN m = {} THEN 0
  ELSE LET k == CHOOSE x \in DOMAIN m : TRUE
       IN Len(m[k]) + CacheSize([x \in DOMAIN m \ {k} |-> m[x]])

StoreFrame == UNCHANGED <<db, nextId, now, cr, sw, ui, boot>>

StartWorkoutState ==
  \E a \in StartArgs :
    /\ SetStore(startWorkoutState(store, now, a.workoutId, a.name, a.routineTemplateId))
    /\ last' = Ret("store.startWorkout", "ok", a.workoutId,
                   store.isInResumeWindow, CacheSize(store.loggedSets))
    /\ StoreFrame

SetCurrentExercise ==
  \E index \in 0..MaxIndex :
    /\ SetStore(setCurrentExercise(store, index))
    /\ last' = Ret("setCurrentExercise", "ok", NULL, FALSE, index)
    /\ StoreFrame

SetCurrentSet ==
  \E setNumber \in 1..MaxSetNumber :
    /\ SetStore(setCurrentSet(store, setNumber))
    /\ last' = Ret("setCurrentSet", "ok", NULL, FALSE, setNumber)
    /\ StoreFrame

AddLoggedSet ==
  \E workoutExerciseId \in WorkoutExerciseArgs, workoutSet \in LoggedSetArgs :
    /\ CacheSize(store.loggedSets) < MaxLogged
    /\ SetStore(addLoggedSet(store, workoutExerciseId, workoutSet))
    /\ last' = Ret("addLoggedSet", "ok", workoutExerciseId, FALSE, workoutSet.id)
    /\ StoreFrame

MarkCompleted ==
  /\ SetStore(markCompleted(store, now))
  /\ last' = Ret("markCompleted", "ok", NULL, FALSE, 0)
  /\ StoreFrame

\* the early returns of resumeWorkout and checkResumeWindow make no set() call
ResumeWorkout ==
  \E r \in {resumeWorkout(store, now)} :
     /\ IF r.state = store THEN UNCHANGED <<store, persisted>> ELSE SetStore(r.state)
     /\ last' = Ret("resumeWorkout", "ok", NULL, r.ret, r.elapsed)
     /\ StoreFrame

CheckResumeWindow ==
  \E r \in {checkResumeWindow(store, now)} :
     /\ IF r.state = store THEN UNCHANGED <<store, persisted>> ELSE SetStore(r.state)
     /\ last' = Ret("checkResumeWindow", "ok", NULL, r.ret, r.elapsed)
     /\ StoreFrame

EndWorkout ==
  /\ SetStore(endWorkout(store))
  /\ last' = Ret("endWorkout", "ok", store.activeWorkoutId,
                 store.isInResumeWindow, CacheSize(store.loggedSets))
  /\ StoreFrame

AbandonWorkout ==
  /\ SetStore(abandonWorkout(store))
  /\ last' = Ret("abandonWorkout", "ok", store.activeWorkoutId,
                 store.isInResumeWindow, CacheSize(store.loggedSets))
  /\ StoreFrame

GetElapsedSeconds ==
  /\ last' = Ret("getElapsedSeconds", "ok", NULL, FALSE, getElapsedSeconds(store, now))
  /\ UNCHANGED <<store, persisted>>
  /\ StoreFrame

\* the process is killed and started again: the store is rebuilt from
\* AsyncStorage, the tables are on disk
Restart ==
  /\ store' = rehydrate(persisted)
  /\ ui' = IdleUi
  /\ last' = Ret("restart", "ok", store.activeWorkoutId, FALSE,
                 CacheSize(store.loggedSets))
  /\ UNCHANGED <<persisted, db, nextId, now, cr, sw, boot>>

NextStore ==
  \/ Tick
  \/ StartWorkoutState
  \/ SetCurrentExercise
  \/ SetCurrentSet
  \/ AddLoggedSet
  \/ MarkCompleted
  \/ ResumeWorkout
  \/ CheckResumeWindow
  \/ EndWorkout
  \/ AbandonWorkout
  \/ GetElapsedSeconds
  \/ Restart

\* the store driven by direct calls, the clock and restarts
SpecStore == Init /\ [][NextStore]_vars

----------------------------------------------------------------------------
(* The repository's operations, called directly.  createRoutine and        *)
(* startWorkout await each statement, so other calls run between their     *)
(* statements; every other operation is a single statement.                *)

\* the largest uuid handed out, and how many templates and sessions are made
MaxId == 9
MaxTemplates == 1
MaxSessions == 1

TargetSet(setNumber, targetReps, targetWeight) ==
  [setNumber |-> setNumber, targetReps |-> targetReps,
   targetWeight |-> targetWeight, setType |-> "normal"]

ExerciseInput(exerciseId, order, notes, sets) ==
  [exerciseId |-> exerciseId, order |-> order, restSeconds |-> 90,
   notes |-> notes, supersetGroupId |-> NULLTEXT, sets |-> sets]

\* what createRoutine is given: no exercises; two exercises, the first with
\* a target set and the second with notes; and one whose second exercise is
\* not in the library
ExerciseLists ==
  {<<>>,
   <<ExerciseInput(1, 0, NULLTEXT, <<TargetSet(1, 8, 50)>>),
     ExerciseInput(2, 1, "slow", <<>>)>>,
   <<ExerciseInput(1, 0, NULLTEXT, <<>>),
     ExerciseInput(-1, 1, NULLTEXT, <<>>)>>}

RoutineInputs ==
  {[name |-> "Push", exercises |-> exs] : exs \in ExerciseLists}

\* routine ids a caller passes: those of the templates there are, and one of none
TemplateIdArgs == Ids(db.routine_templates) \cup {-1}

\* whether the storage layer carries out a write
IoOutcomes == {TRUE, FALSE}

RepoFrame == UNCHANGED <<now, store, persisted, ui, boot>>

CreateRoutineCall ==
  \E input \in RoutineInputs, io \in IoOutcomes :
    /\ cr.pc = "idle"
    /\ Cardinality(db.routine_templates) < MaxTemplates
    /\ nextId + IdsOfCreate(input) - 1 <= MaxId
    /\ \E r \in {createRoutineStep(db, nextId + 1, createRoutineCall(input, nextId), io)} :
          /\ db' = r.db
          /\ nextId' = r.nextId
          /\ cr' = r.call
          /\ last' = Ret(IF r.done THEN "createRoutine" ELSE "createRoutine.await",
                         r.status, r.value, FALSE, 0)
    /\ UNCHANGED sw
    /\ RepoFrame

CreateRoutineStep ==
  \E io \in IoOutcomes :
    /\ cr.pc = "run"
    /\ \E r \in {createRoutineStep(db, nextId, cr, io)} :
          /\ db' = r.db
          /\ nextId' = r.nextId
          /\ cr' = r.call
          /\ last' = Ret(IF r.done THEN "createRoutine" ELSE "createRoutine.await",
                         r.status, r.value, FALSE, 0)
    /\ UNCHANGED sw
    /\ RepoFrame

DeleteRoutine ==
  \E routineId \in Ids(db.routine_templates) :
    /\ \E r \in {deleteRoutine(db, routineId)} :
          /\ db' = r.db
          /\ last' = Ret("deleteRoutine", IF r.ok THEN "ok" ELSE "SqlError",
                         routineId, FALSE, 0)
    /\ UNCHANGED <<nextId, cr, sw>>
    /\ RepoFrame

\* a reader: getRoutineWithExercises(id), reporting how many exercises it saw
GetRoutineWithExercises ==
  \E routineId \in Ids(db.routine_templates) :
    /\ LET routine == getRoutineWithExercises(db, routineId)
       IN last' = Ret("getRoutineWithExercises",
                      IF routineMissing(routine) THEN "NotFound" ELSE "ok",
                      routineId, FALSE, Len(routine.exercises))
    /\ UNCHANGED <<db, nextId, cr, sw>>
    /\ RepoFrame

StartWorkoutCall ==
  \E routineId \in TemplateIdArgs :
    /\ sw.pc = "idle"
    /\ routineId \in Ids(db.routine_templates) =>
         (Cardinality(db.workout_sessions) < MaxSessions /\ nextId <= MaxId)
    /\ \E r \in {startWorkoutStep(db, nextId, now, startWorkoutCall(routineId), TRUE)} :
          /\ db' = r.db
          /\ nextId' = r.nextId
          /\ sw' = r.call
          /\ last' = Ret(IF r.done THEN "startWorkout" ELSE "startWorkout.await",
                         r.status, r.value, FALSE, routineId)
    /\ UNCHANGED cr
    /\ RepoFrame

StartWorkoutStep ==
  \E io \in IoOutcomes :
    /\ sw.pc \notin {"idle"}
    /\ nextId <= MaxId
    /\ \E r \in {startWorkoutStep(db, nextId, now, sw, io)} :
          /\ db' = r.db
          /\ nextId' = r.nextId
          /\ sw' = r.call
          /\ last' = Ret(IF r.done THEN "startWorkout" ELSE "startWorkout.await",
                         r.status, r.value, FALSE, sw.routineId)
    /\ UNCHANGED cr
    /\ RepoFrame

\* a caller has the id of a session only once startWorkout has returned it
CompleteWorkout ==
  \E workoutId \in Ids(db.workout_sessions) \ {sw.workoutId} :
    /\ db' = completeWorkout(db, now, workoutId, NULLTEXT)
    /\ last' = Ret("completeWorkout", "ok", workoutId, FALSE, 0)
    /\ UNCHANGED <<nextId, cr, sw>>
    /\ RepoFrame

NextRepo ==
  \/ CreateRoutineCall
  \/ CreateRoutineStep
  \/ DeleteRoutine
  \/ GetRoutineWithExercises
  \/ StartWorkoutCall
  \/ StartWorkoutStep
  \/ CompleteWorkout

\* the repository under interleaved calls
SpecRepo == Init /\ [][NextRepo]_vars

----------------------------------------------------------------------------
(* The screens.  A handler runs its repository call and its store call in *)
(* one step; the Alert a handler puts up is answered in a later step.      *)

\* how many workouts the screens start and how many entries they schedule
MaxWorkouts == 2
MaxScheduled == 1

\* what the create screen hands to createRoutine (handleSave): a trimmed,
\* non-empty name, at least one exercise picked from the library, order the
\* list index, setNumber the set's index + 1
SaveInputs ==
  {[name |-> "Push",
    exercises |-> <<ExerciseInput(1, 0, NULLTEXT, <<TargetSet(1, 8, NULL)>>)>>],
   [name |-> "Pull",
    exercises |-> <<ExerciseInput(2, 0, "slow", <<TargetSet(1, 8, 50)>>),
                    ExerciseInput(1, 1, NULLTEXT, <<TargetSet(1, 8, NULL)>>)>>]}

\* the routines a list screen shows (getAllRoutines)
Routines == {[id |-> r.id, name |-> r.name] : r \in db.routine_templates}

\* the scheduled entries the calendar shows (getScheduledWorkoutsForDate)
Scheduled ==
  {[id |-> x.id, routineTemplateId |-> x.routine_template_id,
    routineName |-> routineRow(db, x.routine_template_id).name] :
     x \in {y \in db.scheduled_workouts :
              y.routine_template_id \in Ids(db.routine_templates)}}

\* the uuids startWorkout(routineId) draws when it runs through
IdsOfStart(routineId) == 1 + Len(routineExercises(db, routineId))

CanStart(routineId) ==
  /\ Cardinality(db.workout_sessions) < MaxWorkouts
  /\ nextId + IdsOfStart(routineId) - 1 <= MaxId

\* try { workoutId = await startWorkout(id); startWorkoutState(workoutId, name, id) }
\* catch { Alert }: the tables, the uuid counter and the store afterwards
doStartWorkout(d, n, t, s, routineId, name) ==
  CHOOSE end \in
    {[db |-> r.db, nextId |-> r.nextId, status |-> r.status, value |-> r.value,
      store |-> IF r.status = "ok"
                THEN startWorkoutState(s, t, r.value, name, routineId)
                ELSE s] :
       r \in {startWorkoutRun(d, n, t, startWorkoutCall(routineId))}} : TRUE

AppFrame == UNCHANGED <<now, cr, sw, boot>>

\* create screen: handleSave
HandleSave ==
  \E input \in SaveInputs :
    /\ ui.pc = "idle"
    /\ Cardinality(db.routine_templates) < MaxTemplates
    /\ nextId + IdsOfCreate(input) - 1 <= MaxId
    /\ \E r \in {createRoutineRun(db, nextId + 1, createRoutineCall(input, nextId))} :
          /\ db' = r.db
          /\ nextId' = r.nextId
          /\ last' = Ret("handleSave", r.status, r.value, FALSE, 0)
    /\ UNCHANGED <<store, persisted, ui>>
    /\ AppFrame

\* routines list: handleDeleteRoutine, confirmed
HandleDeleteRoutine ==
  \E routine \in Routines :
    /\ ui.pc = "idle"
    /\ \E r \in {deleteRoutine(db, routine.id)} :
          /\ db' = r.db
          /\ last' = Ret("handleDeleteRoutine", IF r.ok THEN "ok" ELSE "SqlError",
                         routine.id, FALSE, 0)
    /\ UNCHANGED <<nextId, store, persisted, ui>>
    /\ AppFrame

\* routines list: handleStartWorkout
RoutinesHandleStartWorkout ==
  \E routine \in Routines :
    /\ ui.pc = "idle"
    /\ IF store.activeWorkoutId # NULL
       THEN /\ ui' = [pc |-> "alert", screen |-> "routines",
                      routineId |-> routine.id, name |-> routine.name]
            /\ last' = Ret("RoutinesScreen.handleStartWorkout", "Conflict",
                           NULL, FALSE, routine.id)
            /\ UNCHANGED <<db, nextId, store, persisted>>
       ELSE /\ CanStart(routine.id)
            /\ \E r \in {doStartWorkout(db, nextId, now, store, routine.id, routine.name)} :
                  /\ db' = r.db
                  /\ nextId' = r.nextId
                  /\ SetStore(r.store)
                  /\ last' = Ret("RoutinesScreen.handleStartWorkout", r.status,
                                 r.value, FALSE, routine.id)
            /\ UNCHANGED ui
    /\ AppFrame

\* routine detail: handleStartWorkout
DetailHandleStartWorkout ==
  \E routine \in Routines :
    /\ ui.pc = "idle"
    /\ CanStart(routine.id)
    /\ \E r \in {doStartWorkout(db, nextId, now, store, routine.id, routine.name)} :
          /\ db' = r.db
          /\ nextId' = r.nextId
          /\ SetStore(r.store)
          /\ last' = Ret("RoutineDetailScreen.handleStartWorkout", r.status,
                         r.value, FALSE, routine.id)
    /\ UNCHANGED ui
    /\ AppFrame

\* calendar: handleScheduleRoutine for the selected date
HandleScheduleRoutine ==
  \E routine \in Routines :
    /\ ui.pc = "idle"
    /\ Cardinality(db.scheduled_workouts) < MaxScheduled
    /\ nextId <= MaxId
    /\ \E r \in {scheduleWorkout(db, nextId, now, routine.id, "2026-01-05")} :
          /\ db' = r.db
          /\ last' = Ret("handleScheduleRoutine", IF r.ok THEN "ok" ELSE "SqlError",
                         nextId, FALSE, routine.id)
    /\ nextId' = nextId + 1
    /\ UNCHANGED <<store, persisted, ui>>
    /\ AppFrame

\* calendar: handleStartScheduled; the entry is deleted once the workout has
\* started, and kept when startWorkout throws or when the awaited DELETE
\* itself is not carried out
HandleStartScheduled ==
  \E scheduled \in Scheduled :
    /\ ui.pc = "idle"
    /\ IF store.activeWorkoutId # NULL
       THEN /\ ui' = [pc |-> "alert", screen |-> "calendar",
                      routineId |-> scheduled.routineTemplateId,
                      name |-> scheduled.routineName]
            /\ last' = Ret("handleStartScheduled", "Conflict", NULL, FALSE,
                           scheduled.id)
            /\ UNCHANGED <<db, nextId, store, persisted>>
       ELSE /\ CanStart(scheduled.routineTemplateId)
            /\ \E io \in IoOutcomes,
                  r \in {doStartWorkout(db, nextId, now, store,
                                        scheduled.routineTemplateId,
                                        scheduled.routineName)} :
                  /\ db' = IF r.status = "ok" /\ io
                           THEN deleteScheduledWorkout(r.db, scheduled.id)
                           ELSE r.db
                  /\ nextId' = r.nextId
                  /\ SetStore(r.store)
                  /\ last' = Ret("handleStartScheduled",
                                 IF r.status = "ok" /\ ~io THEN "SqlError" ELSE r.status,
                                 r.value, FALSE, scheduled.id)
            /\ UNCHANGED ui
    /\ AppFrame

\* the Alert 'Workout in Progress': Continue, or Cancel
AlertDismiss ==
  /\ ui.pc = "alert"
  /\ ui' = IdleUi
  /\ last' = Ret("alert.dismiss", "ok", store.activeWorkoutId, FALSE, 0)
  /\ UNCHANGED <<db, nextId, store, persisted>>
  /\ AppFrame

\* the Alert 'Workout in Progress' of the routines list: Abandon & Start New
AlertAbandonAndStartNew ==
  /\ ui.pc = "alert"
  /\ ui.screen = "routines"
  /\ CanStart(ui.routineId)
  /\ \E r \in {doStartWorkout(db, nextId, now, abandonWorkout(store),
                             ui.routineId, ui.name)} :
        /\ db' = r.db
        /\ nextId' = r.nextId
        /\ SetStore(r.store)
        /\ last' = Ret("alert.abandonAndStartNew", r.status,
                       store.activeWorkoutId, FALSE, r.value)
  /\ ui' = IdleUi
  /\ AppFrame

\* workout screen of the active workout: handleFinishWorkout, confirmed
HandleFinishWorkout ==
  /\ ui.pc = "idle"
  /\ store.activeWorkoutId # NULL
  /\ db' = completeWorkout(db, now, store.activeWorkoutId, NULLTEXT)
  /\ SetStore(endWorkout(store))
  /\ last' = Ret("handleFinishWorkout", "ok", store.activeWorkoutId, FALSE, 0)
  /\ UNCHANGED <<nextId, ui>>
  /\ AppFrame

\* workout screen of the active workout: handleCancelWorkout, confirmed
HandleCancelWorkout ==
  /\ ui.pc = "idle"
  /\ store.activeWorkoutId # NULL
  /\ SetStore(endWorkout(store))
  /\ last' = Ret("handleCancelWorkout", "ok", store.activeWorkoutId, FALSE, 0)
  /\ UNCHANGED <<db, nextId, ui>>
  /\ AppFrame

NextApp ==
  \/ HandleSave
  \/ HandleDeleteRoutine
  \/ RoutinesHandleStartWorkout
  \/ DetailHandleStartWorkout
  \/ HandleScheduleRoutine
  \/ HandleStartScheduled
  \/ AlertDismiss
  \/ AlertAbandonAndStartNew
  \/ HandleFinishWorkout
  \/ HandleCancelWorkout
  \/ Restart

\* the app driven through its screens
SpecApp == Init /\ [][NextApp]_vars

----------------------------------------------------------------------------
(* A session's history: a routine is saved, a workout is started from it,  *)
(* sets are logged, the session is completed, summarised, deleted.         *)

\* how many sessions, logged sets and photos there are, the largest uuid
\* handed out (a uuid drawn for an INSERT that fails is never seen again, so
\* the counter hands it out once more), and how far the clock runs
MaxHistorySessions == 1
MaxSets == 2
MaxPhotos == 1
MaxHistoryId == 11
MaxHistoryNow == 90501

\* the time between two calls: 90.5 s
HistoryDeltas == {90500}

\* routines to start from: two exercises, and the same exercise twice
HistoryInputs ==
  {[name |-> "Push",
    exercises |-> <<ExerciseInput(1, 0, NULLTEXT, <<>>),
                    ExerciseInput(2, 1, NULLTEXT, <<>>)>>],
   [name |-> "Pull",
    exercises |-> <<ExerciseInput(1, 0, NULLTEXT, <<>>),
                    ExerciseInput(1, 1, NULLTEXT, <<>>)>>]}

\* what logSet is given: the same set number each time, and values no form
\* would let through
LogSetArgs ==
  {[setNumber |-> 1, weight |-> 10, reps |-> 5],
   [setNumber |-> 1, weight |-> 20, reps |-> 3],
   [setNumber |-> 1, weight |-> -5, reps |-> 0]}

PhotoPathArgs == {<<>>, <<"pump.jpg">>}

HistoryFrame == UNCHANGED <<store, persisted, cr, sw, ui, boot>>

Wait ==
  \E d \in HistoryDeltas :
    /\ now + d <= MaxHistoryNow
    /\ now' = now + d
    /\ last' = Ret("wait", "ok", NULL, FALSE, d)
    /\ UNCHANGED <<db, nextId>>
    /\ HistoryFrame

HistoryCreateRoutine ==
  \E input \in HistoryInputs :
    /\ Cardinality(db.routine_templates) < MaxTemplates
    /\ nextId + IdsOfCreate(input) - 1 <= MaxHistoryId
    /\ \E r \in {createRoutineRun(db, nextId + 1, createRoutineCall(input, nextId))} :
          /\ db' = r.db
          /\ nextId' = r.nextId
          /\ last' = Ret("createRoutine", r.status, r.value, FALSE, 0)
    /\ UNCHANGED now
    /\ HistoryFrame

HistoryStartWorkout ==
  \E routineId \in Ids(db.routine_templates) :
    /\ Cardinality(db.workout_sessions) < MaxHistorySessions
    /\ nextId + IdsOfStart(routineId) - 1 <= MaxHistoryId
    /\ \E r \in {startWorkoutRun(db, nextId, now, startWorkoutCall(routineId))} :
          /\ db' = r.db
          /\ nextId' = r.nextId
          /\ last' = Ret("startWorkout", r.status, r.value, FALSE, routineId)
    /\ UNCHANGED now
    /\ HistoryFrame

LogSet ==
  \E workoutExerciseId \in Ids(db.workout_exercises) \cup {-1}, a \in LogSetArgs :
    /\ Cardinality(db.workout_sets) < MaxSets
    /\ nextId <= MaxHistoryId
    /\ \E r \in {logSet(db, nextId, now, workoutExerciseId,
                        a.setNumber, a.weight, a.reps)} :
          /\ db' = r.db
          /\ last' = Ret("logSet", IF r.ok THEN "ok" ELSE "SqlError",
                         nextId, FALSE, workoutExerciseId)
          /\ nextId' = IF r.ok THEN nextId + 1 ELSE nextId
    /\ UNCHANGED now
    /\ HistoryFrame

CompleteWorkoutWithPhotos ==
  \E workoutId \in Ids(db.workout_sessions), photoPaths \in PhotoPathArgs :
    /\ Cardinality(db.workout_photos) + Len(photoPaths) <= MaxPhotos
    /\ nextId + Len(photoPaths) - 1 <= MaxHistoryId
    /\ \E r \in {completeWorkoutWithPhotos(db, nextId, now, workoutId,
                                           NULLTEXT, photoPaths)} :
          /\ db' = r.db
          /\ nextId' = r.nextId
          /\ last' = Ret("completeWorkoutWithPhotos",
                         IF r.ok THEN "ok" ELSE "SqlError", workoutId, FALSE,
                         Len(photoPaths))
    /\ UNCHANGED now
    /\ HistoryFrame

CreateCompletedWorkoutForDate ==
  \E routineId \in Ids(db.routine_templates) :
    /\ Cardinality(db.workout_sessions) <= MaxHistorySessions
    /\ nextId <= MaxHistoryId
    /\ \E r \in {createCompletedWorkoutForDate(db, nextId, routineId, now)} :
          /\ db' = r.db
          /\ last' = Ret("createCompletedWorkoutForDate",
                         IF r.ok THEN "ok" ELSE "SqlError", nextId, FALSE, routineId)
          /\ nextId' = IF r.ok THEN nextId + 1 ELSE nextId
    /\ UNCHANGED now
    /\ HistoryFrame

DeleteWorkout ==
  \E workoutId \in Ids(db.workout_sessions) :
    /\ \E r \in {deleteWorkout(db, workoutId)} :
          /\ db' = r.db
          /\ last' = Ret("deleteWorkout", IF r.ok THEN "ok" ELSE "SqlError",
                         workoutId, FALSE, 0)
    /\ UNCHANGED <<nextId, now>>
    /\ HistoryFrame

\* a reader: getWorkoutSummary(id), reporting the total volume it computed
GetWorkoutSummary ==
  \E workoutId \in Ids(db.workout_sessions) :
    /\ \E summary \in {getWorkoutSummary(db, workoutId)} :
          last' = IF summary.id = NULL
                  THEN Ret("getWorkoutSummary", "NotFound", workoutId, FALSE, 0)
                  ELSE Ret("getWorkoutSummary", "ok", workoutId, FALSE,
                           summary.totalVolume)
    /\ UNCHANGED <<db, nextId, now>>
    /\ HistoryFrame

NextHistory ==
  \/ Wait
  \/ HistoryCreateRoutine
  \/ HistoryStartWorkout
  \/ LogSet
  \/ CompleteWorkout
  \/ CompleteWorkoutWithPhotos
  \/ CreateCompletedWorkoutForDate
  \/ DeleteWorkout
  \/ GetWorkoutSummary

\* one session's history under direct calls and a running clock
SpecHistory == Init /\ [][NextHistory]_vars

----------------------------------------------------------------------------
(* Properties of the active-workout state machine and its session rows *)

ActiveSessions == {w \in db.workout_sessions : w.status = "active"}

\* the handlers that attempt to start a workout
StartHandlers ==
  {"RoutinesScreen.handleStartWorkout", "RoutineDetailScreen.handleStartWorkout",
   "handleStartScheduled"}

\* C1: while a workout A is active, every attempt to start a workout B, from
\* whichever screen, ends as a conflict and leaves the store, with A in it,
\* as it was.
C1_ExclusiveActiveWorkout ==
  [][(store.activeWorkoutId # NULL /\ last'.op \in StartHandlers)
       => (last'.status = "Conflict" /\ store' = store)]_vars

\* C2: at most one workout_sessions row has status 'active'.
C2_AtMostOneActiveSession == Cardinality(ActiveSessions) <= 1

\* C3: once the cancel handler or 'Abandon & Start New' has run, the row of
\* the workout that was given up is gone or has status 'abandoned'.
C3_CancelDiscardsSession ==
  last.op \in {"handleCancelWorkout", "alert.abandonAndStartNew"}
    => \A w \in db.workout_sessions : w.id = last.id => w.status = "abandoned"

\* C4: resumeWorkout() returns true exactly when a completion is pending and
\* at most RESUME_WINDOW_MS have passed since completedAt; it then clears
\* completedAt and isInResumeWindow and keeps every other field; when it
\* returns false, the store and what is persisted are unchanged.
C4_ResumeWorkout ==
  [][last'.op = "resumeWorkout"
       => LET pending == store.completedAt # NULL /\ store.isInResumeWindow
              within == now - store.completedAt <= RESUME_WINDOW_MS
          IN /\ last'.flag <=> (pending /\ within)
             /\ last'.flag =>
                  store' = [store EXCEPT !.completedAt = NULL,
                                         !.isInResumeWindow = FALSE]
             /\ ~last'.flag => (store' = store /\ persisted' = persisted)]_vars

\* a resume 599 s after completion has put an active workout with a cached
\* set back in progress
C4_Witness ==
  /\ last.op = "resumeWorkout"
  /\ last.flag
  /\ last.num = 599000
  /\ store.activeWorkoutId # NULL
  /\ store.completedAt = NULL
  /\ ~store.isInResumeWindow
  /\ store.currentExerciseIndex = 1
  /\ DOMAIN store.loggedSets # {}

\* C5: checkResumeWindow(), with a completion pending and more than
\* RESUME_WINDOW_MS since completedAt, resets every field to its initial
\* value and returns false; pending and within the window it returns true
\* and changes nothing; with nothing pending it returns false and changes
\* nothing.
C5_CheckResumeWindow ==
  [][last'.op = "checkResumeWindow"
       => LET pending == store.completedAt # NULL /\ store.isInResumeWindow
              expired == now - store.completedAt > RESUME_WINDOW_MS
          IN /\ (pending /\ expired) =>
                  /\ ~last'.flag
                  /\ store' = InitialState
                  /\ store'.activeWorkoutId = NULL
                  /\ store'.currentExerciseIndex = 0
                  /\ store'.currentSetNumber = 1
                  /\ DOMAIN store'.loggedSets = {}
             /\ (pending /\ ~expired) => (last'.flag /\ store' = store)
             /\ ~pending => (~last'.flag /\ store' = store)]_vars

\* a poll 601 s after completion has reset the store
C5_Witness ==
  /\ last.op = "checkResumeWindow"
  /\ ~last.flag
  /\ last.num = 601000
  /\ store = InitialState
  /\ persisted = partialize(InitialState)

----------------------------------------------------------------------------
(* Properties of the repository *)

WorkoutExercisesOf(d, workoutId) ==
  {w \in d.workout_exercises : w.workout_session_id = workoutId}

\* C6: a reader that runs getRoutineWithExercises between the awaited
\* inserts of a createRoutine given N > 0 exercises sees all N of them.
C6_AtomicallyVisible ==
  (/\ last.op = "getRoutineWithExercises"
   /\ last.status = "ok"
   /\ cr.pc = "run"
   /\ cr.routineId = last.id
   /\ Len(cr.input.exercises) > 0)
    => last.num = Len(cr.input.exercises)

\* C7: when createRoutine or startWorkout ends with a failed insert, none
\* of the rows it had inserted is left: no template row of that routine id,
\* no session row of that workout id.
C7_RollsBackOnFailure ==
  /\ (last.op = "createRoutine" /\ last.status = "SqlError")
       => /\ last.id \notin Ids(db.routine_templates)
          /\ \A r \in db.routine_exercises : r.routine_template_id # last.id
  /\ (last.op = "startWorkout" /\ last.status = "SqlError")
       => /\ last.id \notin Ids(db.workout_sessions)
          /\ WorkoutExercisesOf(db, last.id) = {}

\* C8: startWorkout(id) with an id that is in no routine_templates row ends
\* at once with the not-found error; no table changes and no uuid is drawn.
C8_StartWorkoutNotFound ==
  [][(/\ sw.pc = "idle"
      /\ last'.op \in {"startWorkout", "startWorkout.await"}
      /\ last'.num \notin Ids(db.routine_templates))
       => /\ last'.op = "startWorkout"
          /\ last'.status = "NotFound"
          /\ db' = db
          /\ nextId' = nextId
          /\ sw' = sw]_vars

\* startWorkout was called with an unknown id while a template, a session
\* and its exercise rows were there to be damaged
C8_Witness ==
  /\ last.op = "startWorkout"
  /\ last.status = "NotFound"
  /\ last.num = -1
  /\ db.routine_templates # {}
  /\ db.workout_sessions # {}
  /\ db.workout_exercises # {}

\* C9: startWorkout(T) reads T's name and T's routine exercises, inserts
\* exactly one session row (status 'active', completed_at null, that name)
\* and then, for each routine exercise read, exactly one workout_exercises
\* row with its exercise id, order, notes and id; it returns only when all
\* of them are in, and never touches workout_sets.
C9_StartWorkoutCreates ==
  [][last'.op \in {"startWorkout", "startWorkout.await"}
       => LET c == IF sw.pc = "idle" THEN startWorkoutCall(last'.num) ELSE sw
              T == c.routineId
              ok == last'.status = "ok"
              newSessions == db'.workout_sessions \ db.workout_sessions
              newExercises == db'.workout_exercises \ db.workout_exercises
              others(d) == [d EXCEPT !.workout_sessions = {},
                                     !.workout_exercises = {}]
          IN /\ db'.workout_sets = db.workout_sets
             /\ others(db') = others(db)
             /\ db.workout_sessions \subseteq db'.workout_sessions
             /\ db.workout_exercises \subseteq db'.workout_exercises
             /\ (c.pc = "row" /\ ok) =>
                  /\ db' = db
                  /\ \E t \in db.routine_templates :
                       t.id = T /\ sw'.routine.name = t.name
             /\ c.pc = "exercises" =>
                  /\ db' = db
                  /\ LET read == sw'.routine.exercises
                         rows == {r \in db.routine_exercises :
                                    r.routine_template_id = T}
                     IN /\ Len(read) = Cardinality(rows)
                        /\ {read[n].id : n \in 1..Len(read)} = Ids(rows)
                        /\ \A n \in 1..Len(read) : \E r \in rows :
                             /\ r.id = read[n].id
                             /\ r.exercise_id = read[n].exerciseId
                             /\ r.sort_order = read[n].order
                             /\ r.notes = read[n].notes
             /\ (c.pc = "session" /\ ok) =>
                  /\ newExercises = {}
                  /\ \E w \in newSessions :
                       /\ newSessions = {w}
                       /\ w.id = last'.id
                       /\ w.id \notin Ids(db.workout_sessions)
                       /\ w.status = "active"
                       /\ w.completed_at = NULL
                       /\ w.name = c.routine.name
                       /\ w.routine_template_id = T
                       /\ w.started_at = now
             /\ (c.pc = "exercise" /\ ok) =>
                  /\ newSessions = {}
                  /\ \E w \in newExercises :
                       /\ newExercises = {w}
                       /\ w.id \notin Ids(db.workout_exercises)
                       /\ w.workout_session_id = c.workoutId
                       /\ w.exercise_id = c.routine.exercises[c.i].exerciseId
                       /\ w.sort_order = c.routine.exercises[c.i].order
                       /\ w.notes = c.routine.exercises[c.i].notes
                       /\ w.routine_exercise_id = c.routine.exercises[c.i].id
             /\ (last'.op = "startWorkout" /\ ok) =>
                  /\ c.pc \in {"session", "exercise"}
                  /\ c.pc = "exercise" => c.i = Len(c.routine.exercises)
                  /\ c.pc = "session" => Len(c.routine.exercises) = 0
                  /\ Cardinality(WorkoutExercisesOf(db', last'.id))
                       = Len(c.routine.exercises)]_vars

\* startWorkout has returned the id of an active session with two exercise
\* rows, one of them carrying notes, both referring back to routine exercises
C9_Witness ==
  /\ last.op = "startWorkout"
  /\ last.status = "ok"
  /\ \E w \in ActiveSessions : w.id = last.id /\ w.name = "Push"
  /\ Cardinality(WorkoutExercisesOf(db, last.id)) = 2
  /\ \E w \in WorkoutExercisesOf(db, last.id) : w.notes = "slow"
  /\ \A w \in WorkoutExercisesOf(db, last.id) :
       w.routine_exercise_id \in Ids(db.routine_exercises)
  /\ db.workout_sets = {}

\* C10: deleteRoutine(id) on an existing template removes it with every
\* routine exercise and target set under it, and leaves workout_sessions,
\* workout_exercises and workout_sets as they were.
C10_DeleteRoutineCascades ==
  [][(last'.op = "deleteRoutine" /\ last'.id \in Ids(db.routine_templates))
       => LET exs == {r \in db.routine_exercises :
                        r.routine_template_id = last'.id}
          IN /\ last'.status = "ok"
             /\ last'.id \notin Ids(db'.routine_templates)
             /\ db'.routine_exercises = db.routine_exercises \ exs
             /\ \A r \in db'.routine_exercise_sets :
                  r.routine_exercise_id \notin Ids(exs)
             /\ db'.workout_sessions = db.workout_sessions
             /\ db'.workout_exercises = db.workout_exercises
             /\ db'.workout_sets = db.workout_sets]_vars

----------------------------------------------------------------------------
(* Properties of a session's history *)

\* the logged sets of a session
SetsOf(d, workoutId) ==
  {x \in d.workout_sets :
     x.workout_exercise_id \in Ids(WorkoutExercisesOf(d, workoutId))}

PhotosOf(d, workoutId) ==
  {x \in d.workout_photos : x.workout_session_id = workoutId}

RECURSIVE VolumeSum(_)
VolumeSum(sets) ==
  IF sets = {} THEN 0
  ELSE LET x == CHOOSE y \in sets : TRUE
       IN x.weight * x.reps + VolumeSum(sets \ {x})

\* C11: once deleteWorkout(id) has been called on a session, the session
\* row, its exercise rows, its logged sets and its photos are gone.
C11_DeleteWorkoutHardDeletes ==
  last.op = "deleteWorkout"
    => /\ last.status = "ok"
       /\ last.id \notin Ids(db.workout_sessions)
       /\ WorkoutExercisesOf(db, last.id) = {}
       /\ PhotosOf(db, last.id) = {}

\* C12: a session's completed_at is set exactly when its status is
\* 'completed', and a step that makes a session 'completed' (a new row, or a
\* row that was not 'completed' before) is a completeWorkout or a
\* completeWorkoutWithPhotos on that session.
C12_SoleTransitionIntoCompleted ==
  /\ [](\A w \in db.workout_sessions :
          w.completed_at # NULL <=> w.status = "completed")
  /\ [][\A w \in db'.workout_sessions :
          (/\ w.status = "completed"
           /\ \A v \in db.workout_sessions :
                v.id = w.id => v.status # "completed")
            => /\ last'.op \in {"completeWorkout", "completeWorkoutWithPhotos"}
               /\ last'.id = w.id
               /\ w.id \in Ids(db.workout_sessions)]_vars

\* createCompletedWorkoutForDate has just been refused while a session that
\* was completed with a photo is in the table
C12_Witness ==
  /\ last.op = "createCompletedWorkoutForDate"
  /\ last.status = "SqlError"
  /\ \E w \in db.workout_sessions :
       /\ w.status = "completed"
       /\ w.completed_at = 90501
       /\ w.started_at = 1
       /\ PhotosOf(db, w.id) # {}

\* C13: logSet succeeds exactly when its workout exercise exists, whatever
\* the weight and reps; it then adds exactly one workout_sets row, stamped
\* with the current time, and changes nothing else; a failed call changes
\* nothing.
C13_LogSetAppends ==
  [][last'.op = "logSet"
       => LET ok == last'.status = "ok"
              new == db'.workout_sets \ db.workout_sets
          IN /\ ok <=> last'.num \in Ids(db.workout_exercises)
             /\ [db' EXCEPT !.workout_sets = {}] = [db EXCEPT !.workout_sets = {}]
             /\ db.workout_sets \subseteq db'.workout_sets
             /\ ~ok => db' = db
             /\ ok => \E row \in new :
                        /\ new = {row}
                        /\ row.id = last'.id
                        /\ row.id \notin Ids(db.workout_sets)
                        /\ row.workout_exercise_id = last'.num
                        /\ row.completed_at = now]_vars

\* two logged sets of one workout exercise carry the same set number, one of
\* them with a negative weight and zero reps
C13_Witness ==
  /\ last.op = "logSet"
  /\ last.status = "ok"
  /\ \E a \in db.workout_sets, b \in db.workout_sets :
       /\ a.id # b.id
       /\ a.workout_exercise_id = b.workout_exercise_id
       /\ a.set_number = b.set_number
       /\ a.weight = -5
       /\ a.reps = 0
       /\ b.id = last.id

\* C14: for every session, getWorkoutSummary gives totalVolume the sum of
\* weight * reps over the session's logged sets, totalSets their number, and
\* duration the whole seconds from started_at to completed_at, 0 while the
\* session is not completed.
C14_SummaryTotals ==
  \A w \in db.workout_sessions :
    LET summary == getWorkoutSummary(db, w.id)
    IN /\ summary.id = w.id
       /\ summary.totalVolume = VolumeSum(SetsOf(db, w.id))
       /\ summary.totalSets = Cardinality(SetsOf(db, w.id))
       /\ w.status = "completed" =>
            /\ summary.duration * 1000 <= w.completed_at - w.started_at
            /\ w.completed_at - w.started_at < (summary.duration + 1) * 1000
       /\ w.status # "completed" => summary.duration = 0

\* the summary of a session completed after 90.5 s with sets (10, 5) and
\* (20, 3) has been read: volume 110, 2 sets, 90 s
C14_Witness ==
  /\ last.op = "getWorkoutSummary"
  /\ last.status = "ok"
  /\ last.num = 110
  /\ {<<x.weight, x.reps>> : x \in SetsOf(db, last.id)} = {<<10, 5>>, <<20, 3>>}
  /\ getWorkoutSummary(db, last.id).totalSets = 2
  /\ getWorkoutSummary(db, last.id).duration = 90

\* C15: for every session, getWorkoutSummary gives exerciseCount the number
\* of distinct exercise ids with at least one logged set in the session; with
\* no set logged it is 0.
C15_ExerciseCountOfLoggedSets ==
  \A w \in db.workout_sessions :
    getWorkoutSummary(db, w.id).exerciseCount =
      Cardinality({we.exercise_id :
                     we \in {e \in WorkoutExercisesOf(db, w.id) :
                               \E x \in db.workout_sets :
                                 x.workout_exercise_id = e.id}})

----------------------------------------------------------------------------
(* The last-workout query over databases with a history *)

MaxQuerySessions == 3
MaxQuerySets == 11

\* a past session: its status, its start, and how many sets of the first
\* exercise were logged in it
QuerySessionKinds ==
  {[status |-> "completed", startedAt |-> 1, sets |-> MaxQuerySets],
   [status |-> "completed", startedAt |-> 2, sets |-> 3],
   [status |-> "completed", startedAt |-> 1, sets |-> 3],
   [status |-> "active", startedAt |-> 2, sets |-> 3]}

QueryInput ==
  [name |-> "Push",
   exercises |-> <<ExerciseInput(1, 0, NULLTEXT, <<>>),
                   ExerciseInput(2, 1, NULLTEXT, <<>>)>>]

\* logSet called count times on one workout exercise, set numbers 1..count
RECURSIVE logSets(_, _, _, _, _)
logSets(d, n, t, workoutExerciseId, count) ==
  IF count = 0 THEN [db |-> d, nextId |-> n]
  ELSE CHOOSE end \in
         {[db |-> logSet(prev.db, prev.nextId, t, workoutExerciseId,
                         count, 10 * count, 5).db,
           nextId |-> prev.nextId + 1] :
            prev \in {logSets(d, n, t, workoutExerciseId, count - 1)}} : TRUE

\* startWorkout, the sets of the session, and completeWorkout half an hour on
querySession(d, n, routineId, kind) ==
  CHOOSE end \in
    {CHOOSE logged \in
       {IF kind.status = "completed"
        THEN [db |-> completeWorkout(l2.db, kind.startedAt + 1800000,
                                     started.value, NULLTEXT),
              nextId |-> l2.nextId]
        ELSE l2 :
          l2 \in {logSets(l1.db, l1.nextId, kind.startedAt,
                          (CHOOSE we \in WorkoutExercisesOf(started.db, started.value) :
                             we.exercise_id = 2).id,
                          IF kind.sets = 0 THEN 0 ELSE 1) :
                    l1 \in {logSets(started.db, started.nextId, kind.startedAt,
                                    (CHOOSE we \in WorkoutExercisesOf(started.db, started.value) :
                                       we.exercise_id = 1).id,
                                    kind.sets)}}} : TRUE :
       started \in {startWorkoutRun(d, n, kind.startedAt,
                                    startWorkoutCall(routineId))}} : TRUE

RECURSIVE queryHistory(_, _)
queryHistory(kinds, count) ==
  IF count = 0
  THEN CHOOSE end \in
         {[db |-> r.db, nextId |-> r.nextId, routineId |-> r.value] :
            r \in {createRoutineRun(SeededDb, NumSeed + 2,
                                    createRoutineCall(QueryInput, NumSeed + 1))}} : TRUE
  ELSE CHOOSE end \in
         {CHOOSE next \in
            {[db |-> s.db, nextId |-> s.nextId, routineId |-> prev.routineId] :
               s \in {querySession(prev.db, prev.nextId, prev.routineId, kinds[count])}} : TRUE :
            prev \in {queryHistory(kinds, count - 1)}} : TRUE

InitQuery ==
  /\ \E kinds \in [1..MaxQuerySessions -> QuerySessionKinds] :
       \E h \in {queryHistory(kinds, MaxQuerySessions)} :
         /\ db = h.db
         /\ nextId = h.nextId
  /\ now = 1
  /\ store = InitialState
  /\ persisted = partialize(InitialState)
  /\ cr = IdleCreate
  /\ sw = IdleStart
  /\ ui = IdleUi
  /\ boot = Booted
  /\ last = NoCall

GetLastWorkoutForExercise ==
  \E exerciseId \in Ids(db.exercises) \cup {-1},
     excludeWorkoutId \in Ids(db.workout_sessions) \cup {NULL} :
    /\ last' = Ret("getLastWorkoutForExercise", "ok", excludeWorkoutId, FALSE, exerciseId)
    /\ UNCHANGED <<db, nextId, now, store, persisted, cr, sw, ui, boot>>

NextQuery == GetLastWorkoutForExercise

SpecQuery == InitQuery /\ [][NextQuery]_vars

\* the logged sets of an exercise in completed sessions other than one
MatchingSets(d, exerciseId, excludeWorkoutId) ==
  {ws \in d.workout_sets :
     \E we \in d.workout_exercises, w \in d.workout_sessions :
       /\ ws.workout_exercise_id = we.id
       /\ we.workout_session_id = w.id
       /\ we.exercise_id = exerciseId
       /\ w.status = "completed"
       /\ w.id # excludeWorkoutId}

\* started_at of the session a logged set belongs to
StartOf(d, ws) ==
  (CHOOSE w \in d.workout_sessions :
     \E we \in d.workout_exercises :
       ws.workout_exercise_id = we.id /\ we.workout_session_id = w.id).started_at

\* a comes no later than b in ORDER BY started_at DESC, set_number ASC
NoLater(d, a, b) ==
  \/ StartOf(d, a) > StartOf(d, b)
  \/ StartOf(d, a) = StartOf(d, b) /\ a.set_number <= b.set_number

\* C16: getLastWorkoutForExercise(exerciseId, excludeWorkoutId) returns at
\* most 10 sets; they are distinct logged sets of that exercise in completed
\* sessions other than the excluded one, the first ones (all of them when
\* there are at most 10) in the order of session start descending, then set
\* number ascending.
C16_LastWorkoutSets ==
  last.op = "getLastWorkoutForExercise"
    => LET rows == lastWorkoutRows(db, last.num, last.id)
           result == getLastWorkoutForExercise(db, last.num, last.id)
           matching == MatchingSets(db, last.num, last.id)
           returned == {rows[i].ws : i \in 1..Len(rows)}
       IN /\ Len(rows) <= 10
          /\ Len(rows) = IF Cardinality(matching) < 10
                         THEN Cardinality(matching) ELSE 10
          /\ returned \subseteq matching
          /\ Cardinality(returned) = Len(rows)
          /\ \A i \in 1..Len(rows), j \in 1..Len(rows) :
               i < j => NoLater(db, rows[i].ws, rows[j].ws)
          /\ \A a \in returned, b \in matching \ returned : NoLater(db, a, b)
          /\ Len(result) = Len(rows)
          /\ \A i \in 1..Len(rows) :
               result[i] = [setNumber |-> rows[i].ws.set_number,
                            weight |-> rows[i].ws.weight,
                            reps |-> rows[i].ws.reps]

\* the query left out a completed session with sets of the exercise, skipped
\* an active session with sets of it, and cut the 11 remaining sets down to
\* the 10 with the lowest set numbers
C16_Witness ==
  /\ last.op = "getLastWorkoutForExercise"
  /\ last.num = 1
  /\ \E w \in db.workout_sessions :
       /\ w.id = last.id
       /\ w.status = "completed"
       /\ MatchingSets(db, 1, NULL) \ MatchingSets(db, 1, w.id) # {}
  /\ \E w \in db.workout_sessions :
       /\ w.status = "active"
       /\ SetsOf(db, w.id) # {}
  /\ Cardinality(MatchingSets(db, last.num, last.id)) > 10
  /\ Len(getLastWorkoutForExercise(db, last.num, last.id)) = 10
  /\ getLastWorkoutForExercise(db, last.num, last.id)[1].setNumber = 1
  /\ getLastWorkoutForExercise(db, last.num, last.id)[10].setNumber = 10

----------------------------------------------------------------------------
(* The exercise library: custom exercises and the routines that use them *)

MaxCustom == 1

CustomNames == {"Cable Fly", "Sled Push"}

\* a routine of the first built-in exercise and every custom exercise
LibraryExercises(ids) ==
  [k \in 1..Cardinality(ids) |->
     ExerciseInput(CHOOSE e \in ids : Cardinality({x \in ids : x < e}) = k - 1,
                   k - 1, NULLTEXT, <<>>)]

LibraryInput ==
  [name |-> "Push",
   exercises |-> LibraryExercises({e.id : e \in {x \in db.exercises :
                                                   x.id = 1 \/ x.is_custom = 1}})]

CreateCustomExercise ==
  \E name \in CustomNames :
    /\ Cardinality({e \in db.exercises : e.is_custom = 1}) < MaxCustom
    /\ nextId <= MaxHistoryId
    /\ \E r \in {createCustomExercise(db, nextId, name)} :
          /\ db' = r.db
          /\ nextId' = nextId + 1
          /\ last' = Ret("createCustomExercise", IF r.ok THEN "ok" ELSE "SqlError",
                         nextId, FALSE, 0)
    /\ UNCHANGED now
    /\ HistoryFrame

LibraryCreateRoutine ==
  /\ Cardinality(db.routine_templates) < MaxTemplates
  /\ nextId + IdsOfCreate(LibraryInput) - 1 <= MaxHistoryId
  /\ \E r \in {createRoutineRun(db, nextId + 1, createRoutineCall(LibraryInput, nextId))} :
        /\ db' = r.db
        /\ nextId' = r.nextId
        /\ last' = Ret("createRoutine", r.status, r.value, FALSE, 0)
  /\ UNCHANGED now
  /\ HistoryFrame

DeleteCustomExercise ==
  \E exerciseId \in Ids(db.exercises) \cup {-1} :
    /\ \E r \in {deleteCustomExercise(db, exerciseId)} :
          /\ db' = r.db
          /\ last' = Ret("deleteCustomExercise", IF r.ok THEN "ok" ELSE r.error,
                         exerciseId, FALSE, 0)
    /\ UNCHANGED <<nextId, now>>
    /\ HistoryFrame

NextLibrary ==
  \/ CreateCustomExercise
  \/ LibraryCreateRoutine
  \/ HistoryStartWorkout
  \/ DeleteRoutine
  \/ DeleteCustomExercise

SpecLibrary == Init /\ [][NextLibrary]_vars

\* C17: deleteCustomExercise(id) succeeds exactly when the exercise exists,
\* is custom and no routine_exercises row refers to it; it then removes that
\* exercise row and nothing else; otherwise it fails and changes no row.
C17_DeleteCustomExercise ==
  [][last'.op = "deleteCustomExercise"
       => LET ok == last'.status = "ok"
          IN /\ ok <=> /\ \E e \in db.exercises : e.id = last'.id /\ e.is_custom = 1
                       /\ \A r \in db.routine_exercises : r.exercise_id # last'.id
             /\ ok => db' = [db EXCEPT !.exercises = {e \in @ : e.id # last'.id}]
             /\ ~ok => db' = db]_vars

\* a custom exercise has been deleted after the routine that was created
\* with it was deleted
C17_Witness ==
  /\ last.op = "deleteCustomExercise"
  /\ last.status = "ok"
  /\ last.id \notin Ids(db.exercises)
  /\ nextId > last.id + 1
  /\ db.routine_templates = {}

----------------------------------------------------------------------------
(* Opening the database on a fresh install *)

\* the names of SEED_EXERCISES, in order
SEED_EXERCISES == <<"Barbell Bench Press", "Incline Barbell Bench Press">>

InitSeed ==
  /\ db = EmptyDb
  /\ nextId = 1
  /\ now = 1
  /\ store = InitialState
  /\ persisted = partialize(InitialState)
  /\ cr = IdleCreate
  /\ sw = IdleStart
  /\ ui = IdleUi
  /\ boot = NotBooted
  /\ last = NoCall

SeedFrame == UNCHANGED <<now, store, persisted, cr, sw, ui>>

\* initDatabase(): if (db) return db; otherwise the call goes on to open
InitDatabaseCall(c) ==
  /\ boot.calls[c].pc = "idle"
  /\ IF boot.handle
     THEN /\ last' = Ret("initDatabase", "ok", c, FALSE, Cardinality(db.exercises))
          /\ UNCHANGED boot
     ELSE /\ boot' = [boot EXCEPT !.calls[c].pc = "open"]
          /\ last' = Ret("initDatabaseCall", "ok", c, FALSE, 0)
  /\ UNCHANGED <<db, nextId>>
  /\ SeedFrame

\* db = await SQLite.openDatabaseAsync(...), then PRAGMA foreign_keys and
\* CREATE TABLE IF NOT EXISTS, which change no row
InitDatabaseOpen(c) ==
  /\ boot.calls[c].pc = "open"
  /\ boot' = [boot EXCEPT !.handle = TRUE, !.calls[c].pc = "count"]
  /\ last' = Ret("openDatabaseAsync", "ok", c, FALSE, 0)
  /\ UNCHANGED <<db, nextId>>
  /\ SeedFrame

\* SELECT COUNT(*) FROM exercises; if (count === 0) seed, else return
InitDatabaseCount(c) ==
  /\ boot.calls[c].pc = "count"
  /\ IF Cardinality(db.exercises) = 0
     THEN /\ boot' = [boot EXCEPT !.calls[c] = [pc |-> "seed", i |-> 1]]
          /\ last' = Ret("count", "ok", c, FALSE, 0)
     ELSE /\ boot' = [boot EXCEPT !.calls[c] = IdleInit]
          /\ last' = Ret("initDatabase", "ok", c, FALSE, Cardinality(db.exercises))
  /\ UNCHANGED <<db, nextId>>
  /\ SeedFrame

\* one awaited INSERT of seedExerciseLibrary; after the last one initDatabase
\* returns
SeedExercise(c) ==
  /\ boot.calls[c].pc = "seed"
  /\ \E r \in {RunInsert(db, "exercises",
                         [id |-> nextId, name |-> SEED_EXERCISES[boot.calls[c].i],
                          is_custom |-> 0], TRUE)} :
        /\ db' = r.db
        /\ nextId' = nextId + 1
        /\ IF boot.calls[c].i = Len(SEED_EXERCISES)
           THEN /\ boot' = [boot EXCEPT !.calls[c] = IdleInit]
                /\ last' = Ret("initDatabase", "ok", c, FALSE,
                               Cardinality(r.db.exercises))
           ELSE /\ boot' = [boot EXCEPT !.calls[c].i = @ + 1]
                /\ last' = Ret("seedExerciseLibrary", "ok", c, FALSE, boot.calls[c].i)
  /\ SeedFrame

\* the app is closed between two calls and launched again: the module's
\* handle is gone, the database file stays
Relaunch ==
  /\ boot.handle
  /\ \A c \in 1..MaxInitCalls : boot.calls[c].pc = "idle"
  /\ boot' = NotBooted
  /\ last' = Ret("relaunch", "ok", NULL, FALSE, 0)
  /\ UNCHANGED <<db, nextId>>
  /\ SeedFrame

NextSeed ==
  \/ \E c \in 1..MaxInitCalls : InitDatabaseCall(c)
  \/ \E c \in 1..MaxInitCalls : InitDatabaseOpen(c)
  \/ \E c \in 1..MaxInitCalls : InitDatabaseCount(c)
  \/ \E c \in 1..MaxInitCalls : SeedExercise(c)
  \/ Relaunch

SpecSeed == InitSeed /\ [][NextSeed]_vars

\* C18: whenever an initDatabase call has returned and none is running, the
\* exercises table holds each built-in seed exercise exactly once.
C18_SeededExactlyOnce ==
  (/\ last.op = "initDatabase"
   /\ \A c \in 1..MaxInitCalls : boot.calls[c].pc = "idle")
    => \A k \in 1..Len(SEED_EXERCISES) :
         Cardinality({e \in db.exercises :
                        e.name = SEED_EXERCISES[k] /\ e.is_custom = 0}) = 1

----------------------------------------------------------------------------
(* Properties of the calendar *)

\* C19: once handleStartScheduled has ended with the session it created in
\* workout_sessions, the scheduled entry it was started from is gone.
C19_ScheduledWorkoutConsumed ==
  (/\ last.op = "handleStartScheduled"
   /\ last.id \in Ids(db.workout_sessions))
    => last.num \notin Ids(db.scheduled_workouts)

----------------------------------------------------------------------------
(* createRoutine read back by getRoutineWithExercises *)

\* exercise lists in and out of order, with sets in and out of order, with
\* an exercise twice, without sets, and without a target weight
RoundTripLists ==
  {<<>>,
   <<ExerciseInput(1, 0, NULLTEXT, <<TargetSet(1, 8, 50), TargetSet(2, 6, 60)>>),
     ExerciseInput(2, 1, "slow", <<TargetSet(1, 12, NULL)>>)>>,
   <<ExerciseInput(2, 1, "slow", <<TargetSet(2, 6, 60), TargetSet(1, 8, 50)>>),
     ExerciseInput(1, 0, NULLTEXT, <<>>)>>,
   <<ExerciseInput(1, 2, NULLTEXT, <<TargetSet(3, 5, 70), TargetSet(1, 5, 50),
                                     TargetSet(2, 5, 60)>>),
     ExerciseInput(1, 0, "warm up", <<TargetSet(1, 15, NULL)>>),
     ExerciseInput(2, 1, NULLTEXT, <<>>)>>,
   <<ExerciseInput(1, 0, NULLTEXT, <<>>),
     ExerciseInput(-1, 1, NULLTEXT, <<>>)>>}

RoundTripInputs ==
  {[name |-> name, exercises |-> exs] :
     name \in {"Push", "Leg day"}, exs \in RoundTripLists}

\* createRoutine(input) has been called and has drawn the routine's uuid
InitRoundTrip ==
  /\ db = SeededDb
  /\ nextId = NumSeed + 2
  /\ now = 1
  /\ store = InitialState
  /\ persisted = partialize(InitialState)
  /\ \E input \in RoundTripInputs : cr = createRoutineCall(input, NumSeed + 1)
  /\ sw = IdleStart
  /\ ui = IdleUi
  /\ boot = Booted
  /\ last = NoCall

NextRoundTrip ==
  \/ CreateRoutineStep
  \/ GetRoutineWithExercises

SpecRoundTrip == InitRoundTrip /\ [][NextRoundTrip]_vars

\* the target values of a set that was read
SetValues(set) ==
  [setNumber |-> set.setNumber, targetReps |-> set.targetReps,
   targetWeight |-> set.targetWeight, setType |-> set.setType]

\* sequence b holds the elements of sequence a, in some order
IsPermutation(a, b) ==
  /\ Len(a) = Len(b)
  /\ \E p \in Permutations(1..Len(a)) : \A i \in 1..Len(a) : a[i] = b[p[i]]

\* the exercise that was read carries what the exercise of the input gave
SameExercise(given, read) ==
  /\ read.exerciseId = given.exerciseId
  /\ read.order = given.order
  /\ read.restSeconds = given.restSeconds
  /\ read.notes = given.notes
  /\ read.supersetGroupId = given.supersetGroupId
  /\ IsPermutation(given.sets, [n \in 1..Len(read.sets) |-> SetValues(read.sets[n])])

\* C20: when createRoutine(input) returns, getRoutineWithExercises of the
\* returned id gives the name of the input, as many exercises as the input,
\* each with the values and the sets of one exercise of the input, in
\* ascending order, and each exercise's sets in ascending set number.
C20_RoundTrip ==
  [][(last'.op = "createRoutine" /\ last'.status = "ok")
       => LET routine == getRoutineWithExercises(db', last'.id)
              given == cr.input.exercises
              read == routine.exercises
          IN /\ routine.id = last'.id
             /\ routine.name = cr.input.name
             /\ Len(read) = Len(given)
             /\ \E p \in Permutations(1..Len(given)) :
                  \A i \in 1..Len(given) : SameExercise(given[i], read[p[i]])
             /\ \A i \in 1..Len(read), j \in 1..Len(read) :
                  i < j => read[i].order <= read[j].order
             /\ \A k \in 1..Len(read) :
                  \A i \in 1..Len(read[k].sets), j \in 1..Len(read[k].sets) :
                    i < j => read[k].sets[i].setNumber < read[k].sets[j].setNumber]_vars

\* createRoutine has returned after inserting an exercise before one that
\* comes earlier in the order, and a set before one with a lower set number
C20_Witness ==
  /\ last.op = "createRoutine"
  /\ last.status = "ok"
  /\ Len(getRoutineWithExercises(db, last.id).exercises) = 3
  /\ \E a \in db.routine_exercises, b \in db.routine_exercises :
       /\ a.routine_template_id = last.id
       /\ b.routine_template_id = last.id
       /\ a.id < b.id
       /\ a.sort_order > b.sort_order
  /\ \E x \in db.routine_exercise_sets, y \in db.routine_exercise_sets :
       /\ x.routine_exercise_id = y.routine_exercise_id
       /\ x.id < y.id
       /\ x.set_number > y.set_number

----------------------------------------------------------------------------
(* Properties of the active-workout store *)

\* C21: right after the store's startWorkout(id, name, templateId), the
\* store holds the three arguments, startedAt = the current time, no
\* completedAt, isInResumeWindow false, the cursor (0, 1) and an empty cache.
C21_StartWorkoutState ==
  last.op = "store.startWorkout"
    => \E a \in StartArgs :
         /\ a.workoutId = last.id
         /\ store = [activeWorkoutId |-> a.workoutId,
                     workoutName |-> a.name,
                     routineTemplateId |-> a.routineTemplateId,
                     startedAt |-> now,
                     completedAt |-> NULL,
                     isInResumeWindow |-> FALSE,
                     currentExerciseIndex |-> 0,
                     currentSetNumber |-> 1,
                     loggedSets |-> EmptyMap]

\* startWorkout was called on a store that was in the resume window of
\* another workout with two cached sets
C21_Witness ==
  /\ last.op = "store.startWorkout"
  /\ last.flag
  /\ last.num = 2
  /\ last.id = 12
  /\ store.activeWorkoutId = 12
  /\ store.startedAt > 1
  /\ store.loggedSets = EmptyMap

\* the initial, idle state, field by field
IsIdle(s) ==
  /\ s.activeWorkoutId = NULL
  /\ s.workoutName = NULLTEXT
  /\ s.routineTemplateId = NULL
  /\ s.startedAt = NULL
  /\ s.completedAt = NULL
  /\ ~s.isInResumeWindow
  /\ s.currentExerciseIndex = 0
  /\ s.currentSetNumber = 1
  /\ s.loggedSets = EmptyMap

\* C22: from every state endWorkout and abandonWorkout give the same state,
\* the idle one, a second application of either changes nothing, and the
\* store is idle right after either call.
C22_EndEqualsAbandon ==
  /\ endWorkout(store) = abandonWorkout(store)
  /\ IsIdle(abandonWorkout(store))
  /\ IsIdle(endWorkout(store))
  /\ abandonWorkout(abandonWorkout(store)) = abandonWorkout(store)
  /\ endWorkout(endWorkout(store)) = endWorkout(store)
  /\ endWorkout(abandonWorkout(store)) = abandonWorkout(endWorkout(store))
  /\ last.op \in {"endWorkout", "abandonWorkout"} => IsIdle(store)

\* abandonWorkout was called on a workout in its resume window with two
\* cached sets
C22_Witness ==
  /\ last.op = "abandonWorkout"
  /\ last.id = 11
  /\ last.flag
  /\ last.num = 2
  /\ IsIdle(store)

PersistedFields ==
  {"activeWorkoutId", "workoutName", "routineTemplateId", "startedAt",
   "completedAt", "isInResumeWindow", "currentExerciseIndex", "currentSetNumber"}

\* C24: what is persisted is exactly the eight fields, each with the value
\* the store holds, after a restart too; and right after a restart the cache
\* is empty.
C24_PersistedFields ==
  /\ DOMAIN persisted = PersistedFields
  /\ \A f \in PersistedFields : store[f] = persisted[f]
  /\ last.op = "restart" => store.loggedSets = EmptyMap

\* the process was restarted with two sets in the cache, the cursor moved
\* and a completion pending
C24_Witness ==
  /\ last.op = "restart"
  /\ last.num = 2
  /\ store.loggedSets = EmptyMap
  /\ store.activeWorkoutId = 11
  /\ store.currentExerciseIndex = 1
  /\ store.currentSetNumber = 2
  /\ store.isInResumeWindow
  /\ store.completedAt > store.startedAt

\* the cached sets of a workout exercise
CachedSets(s, workoutExerciseId) ==
  IF workoutExerciseId \in DOMAIN s.loggedSets
  THEN s.loggedSets[workoutExerciseId] ELSE <<>>

\* C25: from every state, addLoggedSet(workoutExerciseId, set) gives the
\* state whose list for that workout exercise is the old list followed by
\* the set, with every other list and every other field as before.
C25_AddLoggedSetAppends ==
  \A workoutExerciseId \in WorkoutExerciseArgs, workoutSet \in LoggedSetArgs :
    LET after == addLoggedSet(store, workoutExerciseId, workoutSet)
        old == CachedSets(store, workoutExerciseId)
        new == CachedSets(after, workoutExerciseId)
    IN /\ Len(new) = Len(old) + 1
       /\ SubSeq(new, 1, Len(old)) = old
       /\ new[Len(new)] = workoutSet
       /\ \A k \in (DOMAIN store.loggedSets \cup DOMAIN after.loggedSets)
                     \ {workoutExerciseId} :
            CachedSets(after, k) = CachedSets(store, k)
       /\ partialize(after) = partialize(store)

\* a second set with set number 1 was added to a workout exercise while
\* another workout exercise had none
C25_Witness ==
  /\ last.op = "addLoggedSet"
  /\ Len(CachedSets(store, last.id)) = 2
  /\ CachedSets(store, last.id)[1].setNumber = CachedSets(store, last.id)[2].setNumber
  /\ CachedSets(store, last.id)[2].id = last.num
  /\ DOMAIN store.loggedSets = {last.id}

\* C27: whenever the store is in the resume window, a workout is active:
\* activeWorkoutId and startedAt are set.
C27_ResumeWindowHasWorkout ==
  store.isInResumeWindow
    => store.activeWorkoutId # NULL /\ store.startedAt # NULL

\* C30: at every instant resumeWorkout() would return true exactly if
\* checkResumeWindow() would, and when checkResumeWindow() resets the store
\* resumeWorkout() would have refused.
C30_SameBoundary ==
  /\ resumeWorkout(store, now).ret = checkResumeWindow(store, now).ret
  /\ checkResumeWindow(store, now).state # store => ~resumeWorkout(store, now).ret
  /\ last.op = "checkResumeWindow" /\ last.flag => resumeWorkout(store, now).ret

\* exactly 600 s after the completion checkResumeWindow has reported the
\* window open, and resumeWorkout would succeed
C30_Witness ==
  /\ last.op = "checkResumeWindow"
  /\ last.flag
  /\ last.num = RESUME_WINDOW_MS
  /\ now - store.completedAt = RESUME_WINDOW_MS
  /\ resumeWorkout(store, now).ret

----------------------------------------------------------------------------
(* A workout finished with a resume window: the session row and the store *)

NextResume ==
  \/ HandleSave
  \/ DetailHandleStartWorkout
  \/ CompleteWorkout
  \/ MarkCompleted
  \/ ResumeWorkout
  \/ Tick

SpecResume == Init /\ [][NextResume]_vars

\* C23: markCompleted() and resumeWorkout() change no row of any table; a
\* resumeWorkout() that succeeds leaves the store with the same workout,
\* started at the same time, no completedAt and outside the resume window,
\* whatever the session row of that workout says.
C23_ResumeWindowInStoreOnly ==
  [][/\ last'.op \in {"markCompleted", "resumeWorkout"} => db' = db
     /\ (last'.op = "resumeWorkout" /\ last'.flag)
          => /\ store'.activeWorkoutId = store.activeWorkoutId
             /\ store'.startedAt = store.startedAt
             /\ store'.completedAt = NULL
             /\ ~store'.isInResumeWindow
             /\ store.completedAt # NULL
             /\ store.isInResumeWindow]_vars

\* resumeWorkout has succeeded 599 s after markCompleted: the store is in
\* progress for a session whose row is 'completed' since the completion
C23_Witness ==
  /\ last.op = "resumeWorkout"
  /\ last.flag
  /\ last.num = 599000
  /\ store.activeWorkoutId # NULL
  /\ store.completedAt = NULL
  /\ \E w \in db.workout_sessions :
       /\ w.id = store.activeWorkoutId
       /\ w.status = "completed"
       /\ w.completed_at = now - 599000

----------------------------------------------------------------------------
(* The workout screen's exercise groups *)

MaxExercises == 3

\* groupExercisesBySupersets(exercises): the first pass files every exercise
\* whose supersetGroupId is truthy (neither null nor the empty string) under
\* that id; the second pass walks the list again and pushes one 'superset'
\* group the first time an id is met, and one 'single' group for every
\* exercise whose id is falsy.
groupExercisesBySupersets(exercises) ==
  LET truthy(g) == g # NULLTEXT /\ g # ""
      ids == {exercises[i].supersetGroupId : i \in 1..Len(exercises)}
      RECURSIVE firstPass(_, _)
      firstPass(i, supersetMap) ==
        IF i > Len(exercises) THEN supersetMap
        ELSE LET ex == exercises[i] IN
             IF truthy(ex.supersetGroupId)
               THEN firstPass(i + 1,
                      [supersetMap EXCEPT ![ex.supersetGroupId] = Append(@, ex)])
               ELSE firstPass(i + 1, supersetMap)
      RECURSIVE secondPass(_, _, _, _)
      secondPass(i, supersetMap, processedSupersets, groups) ==
        IF i > Len(exercises) THEN groups
        ELSE LET ex == exercises[i] IN
             IF truthy(ex.supersetGroupId)
               THEN IF ex.supersetGroupId \notin processedSupersets
                      THEN secondPass(i + 1, supersetMap,
                             processedSupersets \cup {ex.supersetGroupId},
                             Append(groups,
                               [type |-> "superset",
                                exercises |-> supersetMap[ex.supersetGroupId],
                                supersetGroupId |-> ex.supersetGroupId]))
                      ELSE secondPass(i + 1, supersetMap, processedSupersets, groups)
               ELSE secondPass(i + 1, supersetMap, processedSupersets,
                      Append(groups,
                        [type |-> "single",
                         exercises |-> <<ex>>,
                         supersetGroupId |-> NULLTEXT]))
  IN  secondPass(1, firstPass(1, [g \in ids |-> <<>>]), {}, <<>>)

\* routine.exercises as getRoutineWithExercises hands them over: up to
\* MaxExercises exercises, each with no superset id (null), the empty id, or
\* one of two ids, in every order (shared ids adjacent or apart)
GroupInputs ==
  {[i \in 1..n |-> [id |-> i, supersetGroupId |-> g[i]]] :
     <<n, g>> \in {<<m, f>> \in (0..MaxExercises)
                                  \X [1..MaxExercises -> {NULLTEXT, "", "A", "B"}] :
                     \A j \in (m + 1)..MaxExercises : f[j] = NULLTEXT}}

\* setRoutine(data) has run; the memo has not been computed for it yet
InitGroups ==
  /\ db = SeededDb
  /\ nextId = NumSeed + 1
  /\ now = 1
  /\ store = InitialState
  /\ persisted = partialize(InitialState)
  /\ cr = IdleCreate
  /\ sw = IdleStart
  /\ \E exercises \in GroupInputs :
       ui = [pc |-> "loaded", screen |-> "workout",
             routine |-> exercises, exerciseGroups |-> <<>>]
  /\ boot = Booted
  /\ last = NoCall

\* the useMemo of WorkoutScreen: exerciseGroups of the loaded routine
ExerciseGroups ==
  /\ ui.pc = "loaded"
  /\ \E groups \in {groupExercisesBySupersets(ui.routine)} :
       /\ ui' = [ui EXCEPT !.pc = "rendered", !.exerciseGroups = groups]
       /\ last' = Ret("groupExercisesBySupersets", "ok", NULL, FALSE, Len(groups))
  /\ UNCHANGED <<db, nextId, now, store, persisted, cr, sw, boot>>

NextGroups == ExerciseGroups

SpecGroups == InitGroups /\ [][NextGroups]_vars

\* C26: the groups are those of the exercises that open one (an exercise
\* with a null supersetGroupId, or the first exercise of the list with its
\* non-null supersetGroupId), in list order: a 'single' group of the exercise
\* itself for a null id, and for a non-null id a 'superset' group of all the
\* exercises sharing it, in list order; so every exercise is in exactly one
\* group.
C26_GroupsBySharedId ==
  ui.pc = "rendered" =>
    LET exercises == ui.routine
        groups == ui.exerciseGroups
        opens(ex) ==
          \/ ex.supersetGroupId = NULLTEXT
          \/ \A j \in 1..(ex.id - 1) :
               exercises[j].supersetGroupId # ex.supersetGroupId
        openers == SelectSeq(exercises, opens)
        sharing(ex) ==
          SelectSeq(exercises,
                    LAMBDA other : other.supersetGroupId = ex.supersetGroupId)
    IN  /\ Len(groups) = Len(openers)
        /\ \A k \in 1..Len(openers) :
             IF openers[k].supersetGroupId = NULLTEXT
               THEN groups[k] = [type |-> "single",
                                 exercises |-> <<openers[k]>>,
                                 supersetGroupId |-> NULLTEXT]
               ELSE groups[k] = [type |-> "superset",
                                 exercises |-> sharing(openers[k]),
                                 supersetGroupId |-> openers[k].supersetGroupId]
        /\ \A i \in 1..Len(exercises) :
             Cardinality({<<k, n>> \in (1..Len(groups)) \X (1..Len(exercises)) :
                            /\ n <= Len(groups[k].exercises)
                            /\ groups[k].exercises[n] = exercises[i]}) = 1

----------------------------------------------------------------------------
(* Properties of a completed session's summary and of the last workout *)

\* C28: no step changes the totalVolume, totalSets, exerciseCount or
\* duration that getWorkoutSummary returns for a session that is completed
\* before the step and still stored after it.
C28_SummaryFrozen ==
  [][\A w \in db.workout_sessions :
       (w.status = "completed" /\ w.id \in Ids(db'.workout_sessions))
         => LET before == getWorkoutSummary(db, w.id)
                after == getWorkoutSummary(db', w.id)
            IN /\ after.totalVolume = before.totalVolume
               /\ after.totalSets = before.totalSets
               /\ after.exerciseCount = before.exerciseCount
               /\ after.duration = before.duration]_vars

\* C29: the sets returned by one getLastWorkoutForExercise call all belong
\* to one session, which is a completed session other than the excluded one
\* and started no earlier than any other such session with logged sets of
\* the exercise, and they come in the order of their set numbers.
C29_LastWorkoutIsOneSession ==
  last.op = "getLastWorkoutForExercise"
    => LET rows == lastWorkoutRows(db, last.num, last.id)
       IN /\ \A i \in 1..Len(rows), j \in 1..Len(rows) :
               /\ rows[i].wses.id = rows[j].wses.id
               /\ i < j => rows[i].ws.set_number <= rows[j].ws.set_number
          /\ \A i \in 1..Len(rows) :
               /\ rows[i].wses.status = "completed"
               /\ rows[i].wses.id # last.id
               /\ \A ws \in MatchingSets(db, last.num, last.id) :
                    StartOf(db, ws) <= rows[i].wses.started_at

====
